---- MODULE Spec2Model ----
(***************************************************************************)
(* Page translation session of the content script (ContentTranslator in    *)
(* src/content/content-script.js) together with the TRANSLATE_TEXT handler *)
(* of the background service worker it talks to.                           *)
(*                                                                         *)
(* The document is a small DOM: elements with a parent, a tag, an id, a    *)
(* bounding box, and text nodes listed in document order.  An annotation   *)
(* is the <span class="translation-append"> the content script inserts     *)
(* right after a text node; anns[f] lists the annotations that follow text *)
(* node f, nearest first.                                                  *)
(*                                                                         *)
(* The second part is TranslationCore (concatenated into                   *)
(* service-worker.js): normalizeLanguage, detectLanguage, translate,       *)
(* smartTranslate, batchTranslate and the request paths that use them.     *)
(* CoreSpec draws the arguments of one call and the behaviour of the host  *)
(* detector and engine in its initial state and applies the operation.     *)
(*                                                                         *)
(* OverlaySpec is the selection icon and popup of the content script: the  *)
(* selection handlers, their timers, the icon click, the translate request *)
(* and the popup's listeners.  ToggleSpec is a toggle of page translation  *)
(* from the context menu (service-worker.js) or from a panel (App.vue)     *)
(* against the content session, with the menu title and the panels' state. *)
(* MenuSpec is the context-menu label under tab activations and completed  *)
(* loads (updateContextMenuForTab).  CoreSpec also covers the retry        *)
(* manager of shared/error-handler.js.                                     *)
(***************************************************************************)
EXTENDS Integers, Sequences, FiniteSets, Bags, TLC

VARIABLES
  doc,                       \* the page: elements, boxes, text nodes (fixed after load)
  translatorAvailable,       \* 'Translator' capability present in the browser
  ready,                     \* init() has registered the message listeners
  anns,                      \* anns[f]: annotation spans following text node f
  scrollY,                   \* window scroll offset
  isPageTranslated,          \* ContentTranslator.isPageTranslated
  scrollTranslationHandler,  \* a scroll-translation listener is attached to window
  scrollTranslationTimeout,  \* the 500 ms debounce timer is pending
  scrollTimers,              \* number of scroll-debounce timers not yet fired
  lastMessage,               \* last toast shown by showErrorMessage/showSuccessMessage
  procs,                     \* bag of the suspended invocations of handleTranslatePage
                             \* and translateNewlyVisibleContent
  input,                     \* arguments and host behaviour of one TranslationCore call
  output,                    \* what that call handed back
  selection,                 \* window.getSelection().toString().trim(): its length class
  selectionNotices,          \* 'selection too long' toasts shown since the selection changed
  selectionTimers,           \* pending 100 ms timeouts of handleTextSelection
  selectionChangeTimeout,    \* the 200 ms debounce timer of handleSelectionChange is pending
  icon,                      \* the #chrome-ai-translator-icon element
  popups,                    \* the #chrome-ai-translator-popup elements, in document order
  requests,                  \* translate requests of showTranslationPopup awaiting their response
  superseded,                \* how many of them were followed by an outside click, a new
                             \* selection or another icon click
  tabUrl,                    \* scheme of the tab's URL
  injected,                  \* a content script instance exists in the tab
  menuTitle,                 \* title of the 'toggle-translate-page' context-menu item
  isFullPageTranslating,     \* isFullPageTranslating of every open panel (App.vue)
  op,                        \* the toggle in progress: togglePageTranslation of the service
                             \* worker or toggleFullPageTranslation of a panel
  activeTab,                 \* the tab shown in the window
  tabs,                      \* tabs[t]: URL scheme and content session of tab t
  updates                    \* the updateContextMenuForTab calls under way, oldest first

\* the variables of the TranslationCore calls
coreVars == <<input, output>>

\* the variables of the selection icon and popup
overlayVars == <<selection, selectionNotices, selectionTimers,
                 selectionChangeTimeout, icon, popups, requests,
                 superseded>>

\* the variables of the toggle operations and of the mirrored state
toggleVars == <<tabUrl, injected, menuTitle, isFullPageTranslating, op>>

\* the variables of the tab events that update the context-menu label
menuVars == <<activeTab, tabs, updates>>

vars == <<doc, translatorAvailable, ready, anns, scrollY, isPageTranslated,
          scrollTranslationHandler, scrollTranslationTimeout, scrollTimers,
          lastMessage, procs, input, output, selection, selectionNotices,
          selectionTimers, selectionChangeTimeout, icon, popups, requests,
          superseded, tabUrl, injected, menuTitle, isFullPageTranslating, op,
          activeTab, tabs, updates>>

\* Number of handleTranslatePage / translateNewlyVisibleContent invocations
\* that may be suspended at an await at the same time.
MaxProcs == 2

\* Longest list of texts handed to batchTranslate.
MaxBatch == 2

(***************************************************************************)
(* Documents.  Element 1 is <body>.  Boxes are in page coordinates.        *)
(***************************************************************************)

\* a paragraph at the top and two paragraphs side by side below the fold
DocPlain ==
  [ elemParent  |-> <<0, 1, 1, 1>>,
    elemTag     |-> <<"body", "p", "p", "p">>,
    elemId      |-> <<"", "", "", "">>,
    top         |-> <<0, 0, 2, 2>>,
    bottom      |-> <<3, 1, 3, 3>>,
    width       |-> <<1, 1, 1, 1>>,
    innerHeight |-> 2,
    maxScroll   |-> 1,
    nodeParent  |-> <<2, 3, 4>>,
    nodeLen     |-> <<5, 500, 1>>,
    nodeLetters |-> <<TRUE, TRUE, TRUE>>,
    prior       |-> <<0, 0, 0>> ]

\* <p>text<br>text</p>: two text nodes with the same parent element
DocShared ==
  [ elemParent  |-> <<0, 1>>,
    elemTag     |-> <<"body", "p">>,
    elemId      |-> <<"", "">>,
    top         |-> <<0, 0>>,
    bottom      |-> <<2, 2>>,
    width       |-> <<1, 1>>,
    innerHeight |-> 2,
    maxScroll   |-> 0,
    nodeParent  |-> <<2, 2>>,
    nodeLen     |-> <<5, 7>>,
    nodeLetters |-> <<TRUE, TRUE>>,
    prior       |-> <<0, 0>> ]

\* <div><p>text</p>text</div>: a text node after a nested element
DocNested ==
  [ elemParent  |-> <<0, 1, 2>>,
    elemTag     |-> <<"body", "div", "p">>,
    elemId      |-> <<"", "", "">>,
    top         |-> <<0, 0, 0>>,
    bottom      |-> <<2, 2, 1>>,
    width       |-> <<1, 1, 1>>,
    innerHeight |-> 2,
    maxScroll   |-> 0,
    nodeParent  |-> <<3, 2>>,
    nodeLen     |-> <<5, 7>>,
    nodeLetters |-> <<TRUE, TRUE>>,
    prior       |-> <<0, 0>> ]

\* qualifying text next to a <script>, an over-long text, a run of digits,
\* the extension's selection popup and an empty box
DocFilter ==
  [ elemParent  |-> <<0, 1, 1, 1, 1, 1, 1, 1>>,
    elemTag     |-> <<"body", "p", "script", "p", "p", "div", "p", "p">>,
    elemId      |-> <<"", "", "", "", "", "chrome-ai-translator-popup", "", "">>,
    top         |-> <<0, 0, 0, 0, 1, 0, 1, 1>>,
    bottom      |-> <<2, 1, 1, 1, 2, 1, 1, 2>>,
    width       |-> <<1, 1, 1, 1, 1, 1, 0, 1>>,
    innerHeight |-> 2,
    maxScroll   |-> 0,
    nodeParent  |-> <<2, 3, 4, 5, 6, 7, 8>>,
    nodeLen     |-> <<5, 20, 501, 4, 12, 6, 500>>,
    nodeLetters |-> <<TRUE, TRUE, TRUE, FALSE, TRUE, TRUE, TRUE>>,
    prior       |-> <<0, 0, 0, 0, 0, 0, 0>> ]

\* a page as a previous content-script instance left it: a marker after the
\* first of two paragraphs
DocPrior ==
  [ elemParent  |-> <<0, 1, 1>>,
    elemTag     |-> <<"body", "p", "p">>,
    elemId      |-> <<"", "", "">>,
    top         |-> <<0, 0, 1>>,
    bottom      |-> <<2, 1, 2>>,
    width       |-> <<1, 1, 1>>,
    innerHeight |-> 2,
    maxScroll   |-> 0,
    nodeParent  |-> <<2, 3>>,
    nodeLen     |-> <<5, 7>>,
    nodeLetters |-> <<TRUE, TRUE>>,
    prior       |-> <<1, 0>> ]

Docs == {DocPlain, DocShared, DocNested, DocFilter, DocPrior}

Nodes(d) == 1..Len(d.nodeParent)

NoAnnotations(d) == [f \in Nodes(d) |-> <<>>]

PriorAnnotations(d) ==
  [f \in Nodes(d) |-> IF d.prior[f] > 0 THEN <<"translated">> ELSE <<>>]

(***************************************************************************)
(* DOM queries                                                             *)
(***************************************************************************)

\* element e is a, or a descendant of a
RECURSIVE Contains(_, _, _)
Contains(d, a, e) ==
  IF e = 0 THEN FALSE
  ELSE IF e = a THEN TRUE
  ELSE Contains(d, a, d.elemParent[e])

\* element.closest('#id'): e or an ancestor of e carries the id
RECURSIVE Closest(_, _, _)
Closest(d, e, id) ==
  IF e = 0 THEN FALSE
  ELSE IF d.elemId[e] = id THEN TRUE
  ELSE Closest(d, d.elemParent[e], id)

\* parent.querySelector('.translation-append'): the text node followed by
\* the first annotation, in document order, inside element e; 0 when none
QuerySelectorAnnotation(d, a, e) ==
  LET hits == {g \in Nodes(d) : a[g] # <<>> /\ Contains(d, e, d.nodeParent[g])}
  IN IF hits = {} THEN 0
     ELSE CHOOSE g \in hits : \A h \in hits : g <= h

AnnotationCount(d, a) ==
  LET RECURSIVE Sum(_)
      Sum(k) == IF k = 0 THEN 0 ELSE Len(a[k]) + Sum(k - 1)
  IN Sum(Len(d.nodeParent))

(***************************************************************************)
(* FragmentSelector: getPageTextNodes / getVisibleTextNodes                *)
(***************************************************************************)

NonContentTags == {"script", "style", "noscript", "meta", "title", "head"}

OwnElementIds ==
  {"chrome-ai-translator-icon", "chrome-ai-translator-popup", "translation-progress"}

\* variant: no upper limit on the length of the text
AcceptNode_NoLengthCap(d, a, f) ==
  LET parent == d.nodeParent[f]
  IN /\ parent # 0
     /\ d.elemTag[parent] \notin NonContentTags
     /\ \A id \in OwnElementIds : ~Closest(d, parent, id)
     /\ ~(d.nodeLen[f] = 0)
     /\ d.nodeLetters[f]
     /\ QuerySelectorAnnotation(d, a, parent) = 0

\* The acceptNode filter of the TreeWalker.  The text inside an annotation
\* span is rejected by its '.translation-append' test; annotations are kept
\* in anns and never appear among the text nodes of doc.
AcceptNode(d, a, f) ==
  LET parent == d.nodeParent[f]
  IN /\ parent # 0
     /\ d.elemTag[parent] \notin NonContentTags
     /\ \A id \in OwnElementIds : ~Closest(d, parent, id)
     /\ ~(d.nodeLen[f] = 0 \/ d.nodeLen[f] > 500)
     /\ d.nodeLetters[f]
     /\ QuerySelectorAnnotation(d, a, parent) = 0

\* variant: the walker hands the text nodes back last to first
NodeSeq_Reversed(d) == [k \in 1..Len(d.nodeParent) |-> Len(d.nodeParent) + 1 - k]

NodeSeq(d) == [k \in 1..Len(d.nodeParent) |-> k]

GetPageTextNodes(d, a) ==
  SelectSeq(NodeSeq(d), LAMBDA f : AcceptNode(d, a, f))

\* getBoundingClientRect() is relative to the viewport
IsElementInViewport(d, y, e) ==
  IF e = 0 THEN FALSE
  ELSE LET rectTop    == d.top[e] - y
           rectBottom == d.bottom[e] - y
           rectLeft   == 0
           rectRight  == d.width[e]
           windowWidth == 1
       IN /\ rectBottom > 0
          /\ rectRight > 0
          /\ rectTop < d.innerHeight
          /\ rectLeft < windowWidth
          /\ d.width[e] > 0
          /\ rectBottom - rectTop > 0

GetVisibleTextNodes(d, a, y) ==
  SelectSeq(GetPageTextNodes(d, a),
            LAMBDA f : IsElementInViewport(d, y, d.nodeParent[f]))

\* the node list built at the top of translateNewlyVisibleContent
NewlyVisibleNodes(d, a, y) ==
  SelectSeq(GetPageTextNodes(d, a),
            LAMBDA f : /\ d.nodeParent[f] # 0
                       /\ IsElementInViewport(d, y, d.nodeParent[f])
                       /\ QuerySelectorAnnotation(d, a, d.nodeParent[f]) = 0)

(***************************************************************************)
(* Annotation                                                              *)
(***************************************************************************)

\* appendTranslationToNode(textNode, text, isError): drop the first
\* annotation found under the parent element, then insert the new span
\* right after the text node.
AppendTranslationToNode(d, a, f, isError) ==
  LET parent   == d.nodeParent[f]
      existing == QuerySelectorAnnotation(d, a, parent)
      removed  == IF existing # 0 THEN [a EXCEPT ![existing] = Tail(@)] ELSE a
      kind     == IF isError THEN "failed" ELSE "translated"
  IN [removed EXCEPT ![f] = <<kind>> \o @]

(***************************************************************************)
(* TRANSLATE_TEXT round trip                                               *)
(***************************************************************************)

\* What the host engine's translate() does with a fragment text: "T" a text
\* different from the input, "O" the input text itself, "" an empty text,
\* or it throws
EngineOutcomes == {"T", "O", "", "throw"}

\* TranslationCore.translate: result || text, any error rethrown
Translate(outcome) ==
  IF outcome = "throw" THEN "throw"
  ELSE IF outcome = "" THEN "O"
  ELSE outcome

\* BackgroundService.handleTranslateRequest for a fragment text (1..500
\* characters, so neither the empty nor the 5000-character check fires);
\* smartTranslate hands back the input text or the result of translate
HandleTranslateRequest(available, outcome) ==
  IF ~available THEN [success |-> FALSE, result |-> ""]
  ELSE IF Translate(outcome) = "throw" THEN [success |-> FALSE, result |-> ""]
  ELSE [success |-> TRUE, result |-> Translate(outcome)]

\* What the sendMessage callback of translateText can be handed
Responses ==
  {HandleTranslateRequest(translatorAvailable, o) : o \in EngineOutcomes}

\* translateText resolves only for a success response and rejects otherwise
TranslateTextResolves(resp) == resp.success

\* variant: any non-empty result counts as a translation
SweepTranslated_AnyResult(resp) ==
  TranslateTextResolves(resp) /\ resp.result # ""

\* handleTranslatePage, per fragment: result && result.result &&
\* result.result !== originalText
SweepTranslated(resp) ==
  TranslateTextResolves(resp) /\ resp.result # "" /\ resp.result # "O"

\* translateNewlyVisibleContent, per text: translated = result.result || text
\* (text itself when translateText rejected); applied when it differs from
\* the original
RescanTranslated(resp) ==
  LET translated == IF TranslateTextResolves(resp)
                    THEN (IF resp.result # "" THEN resp.result ELSE "O")
                    ELSE "O"
  IN translated # "O"

(***************************************************************************)
(* TranslationCore.  Language tags and texts are sequences of characters.  *)
(***************************************************************************)

Auto == <<"a", "u", "t", "o">>

\* the tag detectLanguage falls back to: 'en'
DefaultLanguage == <<"e", "n">>

UpperCase == <<"C", "E", "H", "N", "S", "U", "Z", "B", "G">>

LowerCase == <<"c", "e", "h", "n", "s", "u", "z", "b", "g">>

\* String.prototype.toLowerCase
ToLowerCase(s) ==
  [k \in 1..Len(s) |->
     IF \E j \in 1..Len(UpperCase) : UpperCase[j] = s[k]
     THEN LowerCase[CHOOSE j \in 1..Len(UpperCase) : UpperCase[j] = s[k]]
     ELSE s[k]]

\* position of the first c in s, 0 when there is none
IndexOf(s, c) ==
  IF \E k \in 1..Len(s) : s[k] = c
  THEN CHOOSE k \in 1..Len(s) : s[k] = c /\ \A j \in 1..(k - 1) : s[j] # c
  ELSE 0

\* String.prototype.replace with a string pattern: the first occurrence only
ReplaceFirst(s, from, to) ==
  IF IndexOf(s, from) = 0 THEN s ELSE [s EXCEPT ![IndexOf(s, from)] = to]

\* s.split(sep)[0]
FirstSegment(s, sep) ==
  IF IndexOf(s, sep) = 0 THEN s ELSE SubSeq(s, 1, IndexOf(s, sep) - 1)

\* String.prototype.trim
RECURSIVE Trim(_)
Trim(s) ==
  IF s = <<>> THEN s
  ELSE IF Head(s) = " " THEN Trim(Tail(s))
  ELSE IF s[Len(s)] = " " THEN Trim(SubSeq(s, 1, Len(s) - 1))
  ELSE s

\* the value null where a language tag is expected
Null == <<"null">>

\* !language: null and the empty string
Falsy(language) == language \in {Null, <<>>}

\* a normalisation that keeps the case of the tag
NormalizeLanguage_KeepCase(language) ==
  IF Falsy(language) THEN <<>>
  ELSE FirstSegment(ReplaceFirst(language, "_", "-"), "-")

\* TranslationCore.normalizeLanguage
NormalizeLanguage(language) ==
  IF Falsy(language) THEN <<>>
  ELSE FirstSegment(ReplaceFirst(ToLowerCase(language), "_", "-"), "-")

\* What the host's LanguageDetector does: it is absent, create() throws,
\* detect() throws, detect() answers null, an empty list, a first entry
\* without detectedLanguage, or a first entry with a tag
DetectFailureKinds ==
  {"absent", "createThrows", "detectThrows", "null", "empty", "noTag"}

DetectedTags == {<<"e", "n">>, <<"z", "h">>, <<"z", "h", "-", "C", "N">>}

DetectOutcomes ==
  {[kind |-> k, tag |-> <<>>] : k \in DetectFailureKinds}
    \cup {[kind |-> "tag", tag |-> t] : t \in DetectedTags}

\* the try block of detectLanguage
DetectLanguageTry(det) ==
  IF det.kind = "absent" THEN [threw |-> FALSE, value |-> DefaultLanguage]
  ELSE IF det.kind \in {"createThrows", "detectThrows"}
       THEN [threw |-> TRUE, value |-> <<>>]
  ELSE IF det.kind = "tag" /\ det.tag # <<>>
       THEN [threw |-> FALSE, value |-> det.tag]
  ELSE [threw |-> FALSE, value |-> DefaultLanguage]

\* variant: without the catch block
DetectLanguage_NoCatch(det) == DetectLanguageTry(det)

\* TranslationCore.detectLanguage
DetectLanguage(det) ==
  IF DetectLanguageTry(det).threw
  THEN [threw |-> FALSE, value |-> DefaultLanguage]
  ELSE DetectLanguageTry(det)

\* TranslationCore.isLanguageDetectorAvailable
IsLanguageDetectorAvailable(det) == det.kind # "absent"

\* the text the engine hands back for outcome "T": some text other than
\* the input
Translated(text) == <<"#">> \o text

\* TranslationCore.translate on a text: create is called only when the
\* Translator capability is present
TranslateText(text, available, outcome) ==
  IF ~available
  THEN [threw |-> TRUE, result |-> <<>>, createCalls |-> 0]
  ELSE IF Translate(outcome) = "throw"
       THEN [threw |-> TRUE, result |-> <<>>, createCalls |-> 1]
  ELSE [threw |-> FALSE,
        result |-> IF Translate(outcome) = "O" THEN text ELSE Translated(text),
        createCalls |-> 1]

\* variant: the language test compares the tags as given
SmartTranslate_RawCompare(text, sourceLanguage, targetLanguage, det, available, outcome) ==
  LET detected == sourceLanguage = Auto
      actualSourceLanguage ==
        IF detected THEN DetectLanguage(det).value ELSE sourceLanguage
      t == TranslateText(text, available, outcome)
  IN IF Trim(text) = <<>>
     THEN [threw |-> TRUE, result |-> <<>>, sourceLanguage |-> sourceLanguage,
           detectCalls |-> 0, translateCalls |-> 0, createCalls |-> 0]
     ELSE IF actualSourceLanguage = targetLanguage
     THEN [threw |-> FALSE, result |-> text,
           sourceLanguage |-> actualSourceLanguage,
           detectCalls |-> IF detected THEN 1 ELSE 0,
           translateCalls |-> 0, createCalls |-> 0]
     ELSE [threw |-> t.threw, result |-> t.result,
           sourceLanguage |-> actualSourceLanguage,
           detectCalls |-> IF detected THEN 1 ELSE 0,
           translateCalls |-> 1, createCalls |-> t.createCalls]

\* TranslationCore.smartTranslate
SmartTranslate(text, sourceLanguage, targetLanguage, det, available, outcome) ==
  LET detected == sourceLanguage = Auto
      actualSourceLanguage ==
        IF detected THEN DetectLanguage(det).value ELSE sourceLanguage
      t == TranslateText(text, available, outcome)
  IN IF Trim(text) = <<>>
     THEN [threw |-> TRUE, result |-> <<>>, sourceLanguage |-> sourceLanguage,
           detectCalls |-> 0, translateCalls |-> 0, createCalls |-> 0]
     ELSE IF NormalizeLanguage(actualSourceLanguage) = NormalizeLanguage(targetLanguage)
     THEN [threw |-> FALSE, result |-> text,
           sourceLanguage |-> actualSourceLanguage,
           detectCalls |-> IF detected THEN 1 ELSE 0,
           translateCalls |-> 0, createCalls |-> 0]
     ELSE [threw |-> t.threw, result |-> t.result,
           sourceLanguage |-> actualSourceLanguage,
           detectCalls |-> IF detected THEN 1 ELSE 0,
           translateCalls |-> 1, createCalls |-> t.createCalls]

\* variant: a failed item is dropped instead of being replaced by its
\* original text
BatchItem_DropFailed(in, available, i) ==
  LET text == in.texts[i]
      r == SmartTranslate(text, in.sourceLanguage, in.targetLanguage,
                          in.detection, available, in.engine[i])
  IN IF r.threw THEN <<>>
     ELSE <<[original |-> text, translated |-> r.result,
             sourceLanguage |-> r.sourceLanguage]>>

\* One iteration of the loop of batchTranslate: the entries it pushes onto
\* results.  The catch block pushes the fallback entry for whatever was
\* thrown inside the try block, the onProgress callback included.
BatchItem(in, available, i) ==
  LET text == in.texts[i]
      r == SmartTranslate(text, in.sourceLanguage, in.targetLanguage,
                          in.detection, available, in.engine[i])
      pushed == [original |-> text, translated |-> r.result,
                 sourceLanguage |-> r.sourceLanguage]
      fallback == [original |-> text, translated |-> text,
                   sourceLanguage |-> IF in.sourceLanguage = Auto
                                      THEN DefaultLanguage
                                      ELSE in.sourceLanguage]
  IN IF r.threw THEN <<fallback>>
     ELSE IF in.onProgress = "throws" THEN <<pushed, fallback>>
     ELSE <<pushed>>

\* The 50 ms pause of iteration i of batchTranslate: it is the last
\* statement of the try block, so it is reached when smartTranslate and the
\* onProgress callback have returned and texts[i] is not the last item
BatchPause(in, available, i) ==
  LET r == SmartTranslate(in.texts[i], in.sourceLanguage, in.targetLanguage,
                          in.detection, available, in.engine[i])
  IN IF ~r.threw /\ in.onProgress # "throws" /\ i < Len(in.texts)
     THEN <<"pause">> ELSE <<>>

\* TranslationCore.batchTranslate: the results list, the number of
\* smartTranslate calls made, and the calls and pauses in the order in
\* which they happen
RECURSIVE BatchLoop(_, _, _, _)
BatchLoop(in, available, i, acc) ==
  IF i > Len(in.texts) THEN acc
  ELSE BatchLoop(in, available, i + 1,
                 [results  |-> acc.results \o BatchItem(in, available, i),
                  attempts |-> acc.attempts + 1,
                  trace    |-> acc.trace \o <<"smartTranslate">>
                                 \o BatchPause(in, available, i)])

BatchTranslate(in, available) ==
  BatchLoop(in, available, 1,
            [results |-> <<>>, attempts |-> 0, trace |-> <<>>])

\* the length cap of handleTranslateRequest and
\* handleStreamingTranslateRequest
MaxTextLength == 5000

\* a TRANSLATE_TEXT handler that calls smartTranslate before it looks at the
\* text and the capability
TranslateTextRequest_GuardsLast(in, available) ==
  LET text == in.texts[1]
      r == SmartTranslate(text, in.sourceLanguage, in.targetLanguage,
                          in.detection, available, in.engine[1])
  IN IF r.threw
     THEN [success |-> FALSE, error |-> "failed", result |-> <<>>,
           sourceLanguage |-> r.sourceLanguage,
           translateCalls |-> r.translateCalls,
           detectCalls |-> r.detectCalls, replies |-> 1]
     ELSE IF Len(text) > MaxTextLength \/ ~available
     THEN [success |-> FALSE, error |-> "unsupported", result |-> <<>>,
           sourceLanguage |-> <<>>, translateCalls |-> r.translateCalls,
           detectCalls |-> r.detectCalls, replies |-> 1]
     ELSE [success |-> TRUE, error |-> "none", result |-> r.result,
           sourceLanguage |-> r.sourceLanguage,
           translateCalls |-> r.translateCalls,
           detectCalls |-> r.detectCalls, replies |-> 1]

\* BackgroundService.handleTranslateRequest, the TRANSLATE_TEXT path, on
\* the whole message; replies counts the sendResponse calls, detectCalls
\* and translateCalls the calls that reach the detector and the engine
TranslateTextRequest(in, available) ==
  LET text == in.texts[1]
      r == SmartTranslate(text, in.sourceLanguage, in.targetLanguage,
                          in.detection, available, in.engine[1])
  IN IF Trim(text) = <<>>
     THEN [success |-> FALSE, error |-> "empty", result |-> <<>>,
           sourceLanguage |-> <<>>, translateCalls |-> 0,
           detectCalls |-> 0, replies |-> 1]
     ELSE IF Len(text) > MaxTextLength
     THEN [success |-> FALSE, error |-> "tooLong", result |-> <<>>,
           sourceLanguage |-> <<>>, translateCalls |-> 0,
           detectCalls |-> 0, replies |-> 1]
     ELSE IF ~available
     THEN [success |-> FALSE, error |-> "unsupported", result |-> <<>>,
           sourceLanguage |-> <<>>, translateCalls |-> 0,
           detectCalls |-> 0, replies |-> 1]
     ELSE IF r.threw
     THEN [success |-> FALSE, error |-> "failed", result |-> <<>>,
           sourceLanguage |-> r.sourceLanguage,
           translateCalls |-> r.translateCalls,
           detectCalls |-> r.detectCalls, replies |-> 1]
     ELSE [success |-> TRUE, error |-> "none", result |-> r.result,
           sourceLanguage |-> r.sourceLanguage,
           translateCalls |-> r.translateCalls,
           detectCalls |-> r.detectCalls, replies |-> 1]

\* BackgroundService.detectLanguage: null when the core's call throws
BackgroundDetectLanguage(det) ==
  IF DetectLanguage(det).threw THEN <<>> ELSE DetectLanguage(det).value

\* a local normalisation that keeps the region subtag
StreamingNorm_KeepRegion(language) ==
  ReplaceFirst(ToLowerCase(IF Falsy(language) THEN <<>> ELSE language),
               "_", "-")

\* __norm of handleStreamingTranslateRequest:
\* (s || '').toLowerCase().replace('_', '-').split('-')[0]
StreamingNorm(language) ==
  FirstSegment(ReplaceFirst(ToLowerCase(IF Falsy(language) THEN <<>>
                                        ELSE language),
                            "_", "-"),
               "-")

\* BackgroundService.handleStreamingTranslateRequest, the
\* TRANSLATE_STREAMING path: the response, and whether the translation
\* that follows a 'streaming' response ended in STREAMING_ERROR
TranslateStreamingRequest(in, available) ==
  LET text == in.texts[1]
      auto == in.sourceLanguage = Auto
      actualSourceLanguage ==
        IF auto THEN BackgroundDetectLanguage(in.detection)
        ELSE in.sourceLanguage
      r == SmartTranslate(text, actualSourceLanguage, in.targetLanguage,
                          in.detection, available, in.engine[1])
      refuse(e) == [success |-> FALSE, error |-> e, streaming |-> FALSE,
                    result |-> <<>>, sourceLanguage |-> <<>>,
                    translateCalls |-> 0, streamError |-> FALSE]
  IN IF Trim(text) = <<>> THEN refuse("empty")
     ELSE IF Len(text) > MaxTextLength THEN refuse("tooLong")
     ELSE IF ~available THEN refuse("unsupported")
     ELSE IF auto /\ ~IsLanguageDetectorAvailable(in.detection)
          THEN refuse("detectorUnavailable")
     ELSE IF auto /\ actualSourceLanguage = <<>> THEN refuse("detectionFailed")
     ELSE IF StreamingNorm(actualSourceLanguage)
               = StreamingNorm(in.targetLanguage)
          THEN [success |-> TRUE, error |-> "none", streaming |-> FALSE,
                result |-> text, sourceLanguage |-> actualSourceLanguage,
                translateCalls |-> 0, streamError |-> FALSE]
     ELSE [success |-> TRUE, error |-> "none", streaming |-> TRUE,
           result |-> r.result, sourceLanguage |-> actualSourceLanguage,
           translateCalls |-> r.translateCalls, streamError |-> r.threw]

\* handleTranslate of the panel (popup/App.vue) with an empty cache: what
\* ends up in errorMessage and translationResult
PanelTranslate(in, available) ==
  LET text == in.texts[1]
      auto == in.sourceLanguage = Auto
      actualSourceLanguage ==
        IF auto THEN DetectLanguage(in.detection).value ELSE in.sourceLanguage
      r == SmartTranslate(text, actualSourceLanguage, in.targetLanguage,
                          in.detection, available, in.engine[1])
      stop(e) == [success |-> FALSE, error |-> e, result |-> <<>>,
                  sourceLanguage |-> <<>>, translateCalls |-> 0]
  IN IF Trim(text) = <<>> THEN stop("empty")
     ELSE IF NormalizeLanguage(in.sourceLanguage)
               = NormalizeLanguage(in.targetLanguage)
          THEN [success |-> TRUE, error |-> "none", result |-> text,
                sourceLanguage |-> in.sourceLanguage, translateCalls |-> 0]
     ELSE IF ~available THEN stop("unsupported")
     ELSE IF auto /\ ~IsLanguageDetectorAvailable(in.detection)
          THEN stop("detectorUnavailable")
     ELSE IF auto /\ (DetectLanguage(in.detection).threw
                      \/ actualSourceLanguage = <<>>)
          THEN stop("detectionFailed")
     ELSE IF r.threw
          THEN [success |-> FALSE, error |-> "failed", result |-> <<>>,
                sourceLanguage |-> actualSourceLanguage,
                translateCalls |-> r.translateCalls]
     ELSE [success |-> TRUE, error |-> "none", result |-> r.result,
           sourceLanguage |-> r.sourceLanguage,
           translateCalls |-> r.translateCalls]

\* a text one character over the handlers' length cap
LongText == [i \in 1..(MaxTextLength + 1) |-> "x"]

\* an empty text, a blank text, a text, a text over the cap
Texts == {<<>>, <<" ">>, <<"h", "i">>, LongText}

SourceLanguages ==
  {Auto, <<>>, <<"e", "n">>, <<"E", "N">>, <<"e", "n", "-", "U", "S">>,
   <<"z", "h">>, <<"z", "h", "_", "C", "N">>}

TargetLanguages ==
  {<<"e", "n">>, <<"E", "N">>, <<"z", "h">>, <<"z", "h", "-", "C", "N">>}

\* the arguments of a call on one text, with what the host's detector and
\* engine will do
SingleInputs ==
  [op : {"single"},
   texts : {<<t>> : t \in Texts},
   sourceLanguage : SourceLanguages,
   targetLanguage : TargetLanguages,
   detection : DetectOutcomes,
   engine : {<<o>> : o \in EngineOutcomes},
   onProgress : {"none"}]

\* the arguments of a batchTranslate call; engine[i] is what the engine does
\* with texts[i]
BatchInputs ==
  UNION {[op : {"batch"},
          texts : [1..n -> {<<" ">>, <<"h", "i">>}],
          sourceLanguage : {Auto, <<"e", "n">>},
          targetLanguage : {<<"e", "n">>, <<"z", "h">>},
          detection : {[kind |-> "absent", tag |-> <<>>],
                       [kind |-> "tag", tag |-> <<"z", "h">>]},
          engine : [1..n -> {"T", "throw"}],
          onProgress : {"none", "returns", "throws"}] : n \in 0..MaxBatch}

\* Largest maxRetries a retry manager is created with.
MaxDownloadRetries == 3

\* The object attemptDownload is called on has the members attemptDownload,
\* getRetryInfo and reset
ManagerHasHandleModelDownloadError == FALSE

\* One call of attemptDownload of the manager made by
\* ErrorHandler.createModelDownloadRetryManager, entered with the manager's
\* retryCount; outcomes[used + 1] is what the next call of downloadFunction
\* does.  The catch block evaluates this.handleModelDownloadError(...) on
\* the manager when the retries are used up.
RECURSIVE AttemptDownload(_, _, _, _, _)
AttemptDownload(retryCount, maxRetries, outcomes, used, downloads) ==
  IF ~(retryCount < maxRetries)
  THEN [settled |-> "resolved", value |-> "undefined",
        retryCount |-> retryCount, used |-> used, downloads |-> downloads]
  ELSE IF outcomes[used + 1] = "ok"
  THEN [settled |-> "resolved", value |-> "success",
        retryCount |-> 0, used |-> used + 1, downloads |-> downloads + 1]
  ELSE IF retryCount + 1 >= maxRetries
  THEN IF ManagerHasHandleModelDownloadError
       THEN [settled |-> "resolved", value |-> "cannotRetry",
             retryCount |-> retryCount + 1, used |-> used + 1,
             downloads |-> downloads + 1]
       ELSE [settled |-> "rejected", value |-> "TypeError",
             retryCount |-> retryCount + 1, used |-> used + 1,
             downloads |-> downloads + 1]
  ELSE AttemptDownload(retryCount + 1, maxRetries, outcomes, used + 1,
                       downloads + 1)

\* two calls of attemptDownload on one manager, as two presses of the retry
\* button of ModelDownloadRetry.vue make them
AttemptDownloadTwice(in) ==
  LET first  == AttemptDownload(0, in.maxRetries, in.outcomes, 0, 0)
      second == AttemptDownload(first.retryCount, in.maxRetries, in.outcomes,
                                first.used, 0)
  IN <<first, second>>

\* a retry manager and what the download function does on each of its calls
DownloadInputs ==
  UNION {[op : {"download"},
          maxRetries : {n},
          outcomes : [1..(2 * n) -> {"ok", "fail"}]] : n \in 1..MaxDownloadRetries}

\* language tags for calls of the normalisations alone
Tags ==
  {Null, <<>>, <<"e", "n">>, <<"E", "N">>,
   <<"e", "n", "-", "U", "S">>, <<"e", "n", "-", "G", "B">>,
   <<"z", "h", "_", "C", "N">>, <<"z", "h", "-", "H", "a", "n", "s">>,
   <<"z", "h", "-", "H", "a", "n", "s", "_", "C", "N">>}

\* the arguments of two calls of a normalisation
NormalizeInputs ==
  [op : {"normalize"},
   texts : {<<>>},
   sourceLanguage : Tags,
   targetLanguage : Tags,
   detection : {[kind |-> "absent", tag |-> <<>>]},
   engine : {<<>>},
   onProgress : {"none"}]

NoInput ==
  [op |-> "none", texts |-> <<>>, sourceLanguage |-> <<>>,
   targetLanguage |-> <<>>, detection |-> [kind |-> "absent", tag |-> <<>>],
   engine |-> <<>>, onProgress |-> "none"]

NoOutput == [op |-> "none", ret |-> <<>>]

(***************************************************************************)
(* PageTranslationSession                                                  *)
(*                                                                         *)
(* An invocation suspended at an await is a record: the node list it       *)
(* collected, the index i of the fragment in flight, its translatedCount   *)
(* (full sweep) or results so far (scroll re-scan).  pc is "await" while a *)
(* TRANSLATE_TEXT request is outstanding and "sleep" during the pause      *)
(* between two fragments.  cancelSeen records that cancel was handled      *)
(* while the invocation was suspended; the code keeps no such flag and     *)
(* nothing reads it.                                                       *)
(***************************************************************************)

Running == BagToSet(procs)

Add(r) == procs (+) SetToBag({r})

Remove(r) == procs (-) SetToBag({r})

Replace(r, r2) == (procs (-) SetToBag({r})) (+) SetToBag({r2})

\* number of TRANSLATE_TEXT requests of this page that await their response
Outstanding ==
  BagCardinality([r \in {q \in Running : q.pc = "await"} |-> CopiesIn(r, procs)])

\* variant: the flag is raised as soon as a fragment has been translated
FlagAfterFragment_Eager(flag, isLast, translatedCount) ==
  IF isLast THEN translatedCount > 0 ELSE flag \/ translatedCount > 0

\* variant: the flag is raised whenever the loop ends
FlagAfterFragment_Always(flag, isLast, translatedCount) ==
  IF isLast THEN translatedCount >= 0 ELSE flag

\* isPageTranslated as handleTranslatePage leaves it after handling the
\* response for one fragment: untouched inside the loop, translatedCount > 0
\* once the loop is over
FlagAfterFragment(flag, isLast, translatedCount) ==
  IF isLast THEN translatedCount > 0 ELSE flag

\* GET_TRANSLATION_STATUS
GetTranslationStatus == [isTranslated |-> isPageTranslated]

\* Panels that are open.
NumPanels == 2

Panels == 1..NumPanels

\* no toggle in progress
IdleOp ==
  [surface |-> 0, pc |-> "idle", type |-> "", contentScriptReady |-> FALSE,
   pingSuccess |-> FALSE, retries |-> 0, probes |-> 0, injected |-> FALSE,
   sent |-> "", response |-> "none", outcome |-> ""]

\* an ordinary page with the content script of the manifest, the menu item
\* as created ('全文翻译'), every panel with isFullPageTranslating = false
ToggleIdle ==
  /\ tabUrl = "https"
  /\ injected = TRUE
  /\ menuTitle = "translate"
  /\ isFullPageTranslating = [p \in Panels |-> FALSE]
  /\ op = IdleOp

\* one tab, with this content session, and no label update under way
MenuIdle ==
  /\ activeTab = 1
  /\ tabs = <<[url |-> "https", session |-> "untranslated"]>>
  /\ updates = <<>>

\* no selection, no icon, no popup, nothing pending
OverlayIdle ==
  /\ selection = "empty"
  /\ selectionNotices = 0
  /\ selectionTimers = 0
  /\ selectionChangeTimeout = FALSE
  /\ icon = "none"
  /\ popups = <<>>
  /\ requests = 0
  /\ superseded = 0

Init ==
  /\ doc \in Docs
  /\ translatorAvailable \in BOOLEAN
  /\ ready = FALSE
  /\ anns = PriorAnnotations(doc)
  /\ scrollY = 0
  /\ isPageTranslated = FALSE
  /\ scrollTranslationHandler = FALSE
  /\ scrollTranslationTimeout = FALSE
  /\ scrollTimers = 0
  /\ lastMessage = "none"
  /\ procs = EmptyBag
  /\ input = NoInput
  /\ output = NoOutput
  /\ OverlayIdle
  /\ MenuIdle
  /\ ToggleIdle

\* init(): constants and preferences are loaded, then the event and message
\* listeners are registered; isPageTranslated keeps the constructor's value
InitDone ==
  /\ ~ready
  /\ ready' = TRUE
  /\ UNCHANGED <<doc, translatorAvailable, anns, scrollY, isPageTranslated,
                 scrollTranslationHandler, scrollTranslationTimeout, scrollTimers,
                 lastMessage, procs>>
  /\ UNCHANGED <<coreVars, menuVars, overlayVars, toggleVars>>

\* Debounce timers that may be pending at once.
MaxScrollTimers == 2

\* a clearTimeout that cancels nothing
ClearTimeout_Noop(timers, pending) == timers

\* clearTimeout(this.scrollTranslationTimeout): the timer the field refers
\* to is cancelled when it has not fired yet
ClearTimeout(timers, pending) == IF pending THEN timers - 1 ELSE timers

\* handleTranslatePage up to its first await
HandleTranslatePage ==
  /\ ready
  /\ LET visibleTextNodes == GetVisibleTextNodes(doc, anns, scrollY)
     IN IF Len(visibleTextNodes) = 0
        THEN /\ lastMessage' = "noVisibleText"
             /\ UNCHANGED procs
        ELSE /\ BagCardinality(procs) < MaxProcs
             /\ procs' = Add([kind |-> "sweep", pc |-> "await",
                              nodes |-> visibleTextNodes, i |-> 1,
                              translatedCount |-> 0, results |-> <<>>,
                              cancelSeen |-> FALSE])
             /\ UNCHANGED lastMessage
  /\ UNCHANGED <<doc, translatorAvailable, ready, anns, scrollY,
                 isPageTranslated, scrollTranslationHandler,
                 scrollTranslationTimeout, scrollTimers>>

\* TRANSLATE_PAGE: handleTranslatePage runs up to its first await; the
\* listener answers {success: true} without waiting for it
TranslatePage ==
  /\ HandleTranslatePage
  /\ UNCHANGED <<coreVars, menuVars, overlayVars, toggleVars>>

\* The response for fragment i of full sweep r arrives: annotate, then
\* either start the 50 ms pause or, after the last fragment, finish
SweepResponse(r, resp) ==
  /\ r \in Running
  /\ r.kind = "sweep"
  /\ r.pc = "await"
  /\ LET node   == r.nodes[r.i]
         ok     == SweepTranslated(resp)
         count  == IF ok THEN r.translatedCount + 1 ELSE r.translatedCount
         isLast == ~(r.i < Len(r.nodes))
     IN /\ anns' = AppendTranslationToNode(doc, anns, node, ~ok)
        /\ isPageTranslated' = FlagAfterFragment(isPageTranslated, isLast, count)
        /\ IF isLast
           THEN /\ IF count > 0
                   THEN \* setupScrollTranslation
                        /\ lastMessage' = "sweepDone"
                        /\ scrollTranslationHandler' = TRUE
                        /\ scrollTranslationTimeout' =
                             IF scrollTranslationHandler THEN FALSE
                             ELSE scrollTranslationTimeout
                        /\ scrollTimers' =
                             IF scrollTranslationHandler
                             THEN ClearTimeout(scrollTimers,
                                               scrollTranslationTimeout)
                             ELSE scrollTimers
                   ELSE /\ lastMessage' = "noneTranslated"
                        /\ UNCHANGED <<scrollTranslationHandler,
                                       scrollTranslationTimeout, scrollTimers>>
                /\ procs' = Remove(r)
           ELSE /\ procs' = Replace(r, [r EXCEPT !.pc = "sleep",
                                                 !.translatedCount = count])
                /\ UNCHANGED <<lastMessage, scrollTranslationHandler,
                               scrollTranslationTimeout, scrollTimers>>
  /\ UNCHANGED <<doc, translatorAvailable, ready, scrollY>>
  /\ UNCHANGED <<coreVars, menuVars, overlayVars, toggleVars>>

\* The 50 ms pause is over: the loop moves on and sends the next request
SweepSleepDone(r) ==
  /\ r \in Running
  /\ r.kind = "sweep"
  /\ r.pc = "sleep"
  /\ procs' = Replace(r, [r EXCEPT !.pc = "await", !.i = @ + 1])
  /\ UNCHANGED <<doc, translatorAvailable, ready, anns, scrollY,
                 isPageTranslated, scrollTranslationHandler,
                 scrollTranslationTimeout, scrollTimers, lastMessage>>
  /\ UNCHANGED <<coreVars, menuVars, overlayVars, toggleVars>>

\* variant: the listener is removed but a pending debounce timer is left
\* running
CancelTranslatePage_KeepTimer ==
  /\ ready
  /\ anns' = NoAnnotations(doc)
  /\ scrollTranslationHandler' = FALSE
  /\ isPageTranslated' = FALSE
  /\ lastMessage' = "cancelled"
  /\ procs' = BagOfAll(LAMBDA r : [r EXCEPT !.cancelSeen = TRUE], procs)
  /\ UNCHANGED <<doc, translatorAvailable, ready, scrollY,
                 scrollTranslationTimeout, scrollTimers>>
  /\ UNCHANGED <<coreVars, menuVars, overlayVars, toggleVars>>

\* handleCancelTranslatePage
HandleCancelTranslatePage ==
  /\ ready
  /\ anns' = NoAnnotations(doc)
  /\ IF scrollTranslationHandler
     THEN /\ scrollTranslationHandler' = FALSE
          /\ scrollTranslationTimeout' = FALSE
          /\ scrollTimers' = ClearTimeout(scrollTimers,
                                          scrollTranslationTimeout)
     ELSE UNCHANGED <<scrollTranslationHandler, scrollTranslationTimeout,
                      scrollTimers>>
  /\ isPageTranslated' = FALSE
  /\ lastMessage' = "cancelled"
  /\ procs' = BagOfAll(LAMBDA r : [r EXCEPT !.cancelSeen = TRUE], procs)
  /\ UNCHANGED <<doc, translatorAvailable, ready, scrollY>>

\* CANCEL_TRANSLATE_PAGE: handleCancelTranslatePage, answered with
\* {success: true}
CancelTranslatePage ==
  /\ HandleCancelTranslatePage
  /\ UNCHANGED <<coreVars, menuVars, overlayVars, toggleVars>>

\* The user scrolls the window; an attached scroll-translation listener
\* restarts its debounce timer
Scroll(y) ==
  /\ y \in 0..doc.maxScroll
  /\ y # scrollY
  /\ scrollY' = y
  /\ scrollTranslationTimeout' =
       IF scrollTranslationHandler THEN TRUE ELSE scrollTranslationTimeout
  /\ IF scrollTranslationHandler
     THEN /\ ClearTimeout(scrollTimers, scrollTranslationTimeout)
               < MaxScrollTimers
          /\ scrollTimers' =
               ClearTimeout(scrollTimers, scrollTranslationTimeout) + 1
     ELSE UNCHANGED scrollTimers
  /\ UNCHANGED <<doc, translatorAvailable, ready, anns, isPageTranslated,
                 scrollTranslationHandler, lastMessage, procs>>
  /\ UNCHANGED <<coreVars, menuVars, overlayVars, toggleVars>>

\* The debounce timer fires: translateNewlyVisibleContent runs up to its
\* first await
ScrollTimerFire ==
  /\ scrollTimers > 0
  /\ scrollTimers' = scrollTimers - 1
  /\ \/ /\ scrollTranslationTimeout
        /\ scrollTranslationTimeout' = FALSE
     \/ /\ scrollTimers > (IF scrollTranslationTimeout THEN 1 ELSE 0)
        /\ UNCHANGED scrollTranslationTimeout
  /\ LET newlyVisibleNodes == NewlyVisibleNodes(doc, anns, scrollY)
     IN IF ~isPageTranslated \/ Len(newlyVisibleNodes) = 0
        THEN UNCHANGED procs
        ELSE /\ BagCardinality(procs) < MaxProcs
             /\ procs' = Add([kind |-> "rescan", pc |-> "await",
                              nodes |-> newlyVisibleNodes, i |-> 1,
                              translatedCount |-> 0, results |-> <<>>,
                              cancelSeen |-> FALSE])
  /\ UNCHANGED <<doc, translatorAvailable, ready, anns, scrollY,
                 isPageTranslated, scrollTranslationHandler, lastMessage>>
  /\ UNCHANGED <<coreVars, menuVars, overlayVars, toggleVars>>

\* second loop of translateNewlyVisibleContent: annotate the nodes whose
\* result differs from the original, in order
RECURSIVE ApplyResults(_, _, _, _, _)
ApplyResults(d, a, nodes, results, k) ==
  IF k > Len(nodes) THEN a
  ELSE ApplyResults(d,
         IF results[k] THEN AppendTranslationToNode(d, a, nodes[k], FALSE) ELSE a,
         nodes, results, k + 1)

\* The response for text i of scroll re-scan r arrives: record it and send
\* the next request at once, or, after the last text, apply all results
RescanResponse(r, resp) ==
  /\ r \in Running
  /\ r.kind = "rescan"
  /\ r.pc = "await"
  /\ LET results == Append(r.results, RescanTranslated(resp))
     IN IF r.i < Len(r.nodes)
        THEN /\ procs' = Replace(r, [r EXCEPT !.i = @ + 1, !.results = results])
             /\ UNCHANGED anns
        ELSE /\ anns' = ApplyResults(doc, anns, r.nodes, results, 1)
             /\ procs' = Remove(r)
  /\ UNCHANGED <<doc, translatorAvailable, ready, scrollY, isPageTranslated,
                 scrollTranslationHandler, scrollTranslationTimeout, scrollTimers,
                 lastMessage>>
  /\ UNCHANGED <<coreVars, menuVars, overlayVars, toggleVars>>

Next ==
  \/ InitDone
  \/ TranslatePage
  \/ \E r \in Running, resp \in Responses : SweepResponse(r, resp)
  \/ \E r \in Running : SweepSleepDone(r)
  \/ CancelTranslatePage
  \/ \E y \in 0..1 : Scroll(y)
  \/ ScrollTimerFire
  \/ \E r \in Running, resp \in Responses : RescanResponse(r, resp)

Spec == Init /\ [][Next]_vars

(***************************************************************************)
(* One TranslationCore call                                                *)
(***************************************************************************)

pageVars == <<doc, ready, anns, scrollY, isPageTranslated,
              scrollTranslationHandler, scrollTranslationTimeout,
              scrollTimers,
              lastMessage, procs>>

CoreInit ==
  /\ doc = DocShared
  /\ translatorAvailable \in BOOLEAN
  /\ ready = FALSE
  /\ anns = NoAnnotations(doc)
  /\ scrollY = 0
  /\ isPageTranslated = FALSE
  /\ scrollTranslationHandler = FALSE
  /\ scrollTranslationTimeout = FALSE
  /\ scrollTimers = 0
  /\ lastMessage = "none"
  /\ procs = EmptyBag
  /\ input \in SingleInputs \cup BatchInputs \cup NormalizeInputs
                \cup DownloadInputs
  /\ output = NoOutput
  /\ OverlayIdle
  /\ MenuIdle
  /\ ToggleIdle

CallDetectLanguage ==
  /\ input.op = "single" /\ output.op = "none"
  /\ output' = [op |-> "detectLanguage", ret |-> DetectLanguage(input.detection)]
  /\ UNCHANGED <<pageVars, translatorAvailable, input, overlayVars, menuVars,
                 toggleVars>>

CallSmartTranslate ==
  /\ input.op = "single" /\ output.op = "none"
  /\ output' = [op |-> "smartTranslate",
                ret |-> SmartTranslate(input.texts[1], input.sourceLanguage,
                                       input.targetLanguage, input.detection,
                                       translatorAvailable, input.engine[1])]
  /\ UNCHANGED <<pageVars, translatorAvailable, input, overlayVars, menuVars,
                 toggleVars>>

CallBatchTranslate ==
  /\ input.op = "batch" /\ output.op = "none"
  /\ output' = [op |-> "batchTranslate",
                ret |-> BatchTranslate(input, translatorAvailable)]
  /\ UNCHANGED <<pageVars, translatorAvailable, input, overlayVars, menuVars,
                 toggleVars>>

CallTranslateText ==
  /\ input.op = "single" /\ output.op = "none"
  /\ output' = [op |-> "TRANSLATE_TEXT",
                ret |-> TranslateTextRequest(input, translatorAvailable)]
  /\ UNCHANGED <<pageVars, translatorAvailable, input, overlayVars, menuVars,
                 toggleVars>>

CallTranslateStreaming ==
  /\ input.op = "single" /\ output.op = "none"
  /\ output' = [op |-> "TRANSLATE_STREAMING",
                ret |-> TranslateStreamingRequest(input, translatorAvailable)]
  /\ UNCHANGED <<pageVars, translatorAvailable, input, overlayVars, menuVars,
                 toggleVars>>

CallPanelTranslate ==
  /\ input.op = "single" /\ output.op = "none"
  /\ output' = [op |-> "handleTranslate",
                ret |-> PanelTranslate(input, translatorAvailable)]
  /\ UNCHANGED <<pageVars, translatorAvailable, input, overlayVars, menuVars,
                 toggleVars>>

\* normalizeLanguage on each of two tags, and once more on the first result
CallNormalizeLanguage ==
  /\ input.op = "normalize" /\ output.op = "none"
  /\ output' = [op |-> "normalizeLanguage",
                ret |-> [value |-> NormalizeLanguage(input.sourceLanguage),
                         again |-> NormalizeLanguage(
                                     NormalizeLanguage(input.sourceLanguage)),
                         other |-> NormalizeLanguage(input.targetLanguage)]]
  /\ UNCHANGED <<pageVars, translatorAvailable, input, overlayVars, menuVars,
                 toggleVars>>

\* __norm of the streaming handler on each of two tags
CallStreamingNorm ==
  /\ input.op = "normalize" /\ output.op = "none"
  /\ output' = [op |-> "__norm",
                ret |-> [value |-> StreamingNorm(input.sourceLanguage),
                         other |-> StreamingNorm(input.targetLanguage)]]
  /\ UNCHANGED <<pageVars, translatorAvailable, input, overlayVars, menuVars,
                 toggleVars>>

\* handleRetry of ModelDownloadRetry.vue, twice
CallAttemptDownload ==
  /\ input.op = "download" /\ output.op = "none"
  /\ output' = [op |-> "attemptDownload", ret |-> AttemptDownloadTwice(input)]
  /\ UNCHANGED <<pageVars, translatorAvailable, input, overlayVars, menuVars,
                 toggleVars>>

CoreNext ==
  \/ CallStreamingNorm
  \/ CallAttemptDownload
  \/ CallNormalizeLanguage
  \/ CallDetectLanguage
  \/ CallSmartTranslate
  \/ CallBatchTranslate
  \/ CallTranslateText
  \/ CallTranslateStreaming
  \/ CallPanelTranslate

CoreSpec == CoreInit /\ [][CoreNext]_vars

(***************************************************************************)
(* Selection icon and popup of the content script.  The selection is       *)
(* known by the length class of its trimmed text: "empty", "ok" (1..5000   *)
(* characters) or "long" (more than 5000).  A popup is "fresh" while the   *)
(* 800 ms timer of setupPopupEventListeners is pending, "armed" once its   *)
(* outside-click listener is on the document, and "closing" during the     *)
(* 200 ms fade-out of closePopup.  The icon is "shown" while its 5 s timer *)
(* is pending, "kept" when that timer found a popup and left the icon      *)
(* alone, and "fading" during its 200 ms fade-out.                         *)
(***************************************************************************)

\* Popups and pending translate requests of showTranslationPopup that may
\* exist at the same time.
MaxPopups == 2

\* Pending 100 ms timeouts of handleTextSelection.
MaxTimers == 2

\* 'Selection too long' toasts counted for one selection.
MaxNotices == 2

SelectionClasses == {"empty", "ok", "long"}

\* keyup events: the key and the state of the shift modifier
Keys == {"ArrowRight", "Shift", "a"}

\* this.overlayManager: null in the constructor and never assigned
OverlayManagerVisible == FALSE

\* document.getElementById('chrome-ai-translator-popup') finds an element
HasPopup(ps) == Len(ps) > 0

\* hideOverlay on the popups: the first element with the popup id is removed
HideOverlayPopups(ps) == IF Len(ps) > 0 THEN Tail(ps) ELSE ps

\* ps without its i-th element
RemoveAt(ps, i) == SubSeq(ps, 1, i - 1) \o SubSeq(ps, i + 1, Len(ps))

\* handleKeyboardSelection: arrow keys and any key with shift held
KeyHandled(key, shiftKey) == key = "ArrowRight" \/ shiftKey

\* The user changes the selection; the document gets a selectionchange
\* event and handleSelectionChange restarts its debounce timer
Select(s) ==
  /\ ready
  /\ s \in SelectionClasses
  /\ s # selection
  /\ selection' = s
  /\ selectionNotices' = 0
  /\ selectionChangeTimeout' = TRUE
  /\ superseded' = IF s # "empty" THEN requests ELSE superseded
  /\ UNCHANGED <<selectionTimers, icon, popups, requests>>
  /\ UNCHANGED <<pageVars, translatorAvailable, coreVars, menuVars, toggleVars>>

\* mouseup reaches the document (the popup stops the ones inside it):
\* handleTextSelection starts its 100 ms timeout
MouseUp ==
  /\ ready
  /\ selectionTimers < MaxTimers
  /\ selectionTimers' = selectionTimers + 1
  /\ UNCHANGED <<selection, selectionNotices, selectionChangeTimeout, icon,
                 popups, requests, superseded>>
  /\ UNCHANGED <<pageVars, translatorAvailable, coreVars, menuVars, toggleVars>>

\* keyup: handleKeyboardSelection
KeyUp(key, shiftKey) ==
  /\ ready
  /\ IF KeyHandled(key, shiftKey)
     THEN /\ selectionTimers < MaxTimers
          /\ selectionTimers' = selectionTimers + 1
     ELSE UNCHANGED selectionTimers
  /\ UNCHANGED <<selection, selectionNotices, selectionChangeTimeout, icon,
                 popups, requests, superseded>>
  /\ UNCHANGED <<pageVars, translatorAvailable, coreVars, menuVars, toggleVars>>

\* variant: an empty selection hides the overlay whether or not a popup
\* is present
TextSelectionEmpty_NoPopupCheck(ic, ps) ==
  [icon |-> "none", popups |-> HideOverlayPopups(ps)]

\* handleTextSelection, empty selection: hideOverlay unless a popup exists
TextSelectionEmpty(ic, ps) ==
  IF ~HasPopup(ps)
  THEN [icon |-> "none", popups |-> HideOverlayPopups(ps)]
  ELSE [icon |-> ic, popups |-> ps]

\* The 100 ms timeout of handleTextSelection fires and reads the selection
SelectionTimerFire ==
  /\ selectionTimers > 0
  /\ selectionTimers' = selectionTimers - 1
  /\ CASE selection = "ok" ->
            \* showTranslationIcon: hideOverlay, then a new icon
            /\ icon' = "shown"
            /\ popups' = HideOverlayPopups(popups)
            /\ UNCHANGED selectionNotices
       [] selection = "empty" ->
            /\ icon' = TextSelectionEmpty(icon, popups).icon
            /\ popups' = TextSelectionEmpty(icon, popups).popups
            /\ UNCHANGED selectionNotices
       [] selection = "long" ->
            \* showErrorMessage
            /\ selectionNotices < MaxNotices
            /\ selectionNotices' = selectionNotices + 1
            /\ UNCHANGED <<icon, popups>>
  /\ UNCHANGED <<selection, selectionChangeTimeout, requests, superseded>>
  /\ UNCHANGED <<pageVars, translatorAvailable, coreVars, menuVars, toggleVars>>

\* The 200 ms debounce timer of handleSelectionChange fires
SelectionChangeTimerFire ==
  /\ selectionChangeTimeout
  /\ selectionChangeTimeout' = FALSE
  /\ IF selection = "empty" /\ ~HasPopup(popups)
     THEN /\ icon' = "none"
          /\ popups' = HideOverlayPopups(popups)
     ELSE UNCHANGED <<icon, popups>>
  /\ UNCHANGED <<selection, selectionNotices, selectionTimers, requests, superseded>>
  /\ UNCHANGED <<pageVars, translatorAvailable, coreVars, menuVars, toggleVars>>

\* The document is scrolled: handleDocumentScroll
DocumentScroll(y) ==
  /\ ready
  /\ y \in 0..doc.maxScroll
  /\ y # scrollY
  /\ scrollY' = y
  /\ IF HasPopup(popups)
     THEN UNCHANGED <<icon, popups>>
     ELSE IF OverlayManagerVisible
          THEN /\ icon' = "none"
               /\ popups' = HideOverlayPopups(popups)
          ELSE UNCHANGED <<icon, popups>>
  /\ UNCHANGED <<selection, selectionNotices, selectionTimers,
                 selectionChangeTimeout, requests, superseded>>
  /\ UNCHANGED <<doc, ready, anns, isPageTranslated, scrollTranslationHandler,
                 scrollTranslationTimeout, scrollTimers, lastMessage, procs>>
  /\ UNCHANGED <<translatorAvailable, coreVars, menuVars, toggleVars>>

\* The 5 s timer of the icon fires: the fade-out starts unless a popup
\* exists
IconTimerFire ==
  /\ icon = "shown"
  /\ icon' = IF ~HasPopup(popups) THEN "fading" ELSE "kept"
  /\ UNCHANGED <<selection, selectionNotices, selectionTimers,
                 selectionChangeTimeout, popups, requests, superseded>>
  /\ UNCHANGED <<pageVars, translatorAvailable, coreVars, menuVars, toggleVars>>

\* The 200 ms fade-out of the icon is over
IconFadeDone ==
  /\ icon = "fading"
  /\ icon' = "none"
  /\ UNCHANGED <<selection, selectionNotices, selectionTimers,
                 selectionChangeTimeout, popups, requests, superseded>>
  /\ UNCHANGED <<pageVars, translatorAvailable, coreVars, menuVars, toggleVars>>

\* showTranslationPopup up to its await: hideOverlay, then the request
ShowTranslationPopup(ps) == HideOverlayPopups(ps)

\* The icon is clicked (the click does not reach the document)
IconClick ==
  /\ icon # "none"
  /\ Len(ShowTranslationPopup(popups)) + requests < MaxPopups
  /\ icon' = "none"
  /\ popups' = ShowTranslationPopup(popups)
  /\ requests' = requests + 1
  /\ superseded' = requests
  /\ UNCHANGED <<selection, selectionNotices, selectionTimers,
                 selectionChangeTimeout>>
  /\ UNCHANGED <<pageVars, translatorAvailable, coreVars, menuVars, toggleVars>>

\* The translate request of showTranslationPopup is answered: the popup is
\* created with the result, or with an error when translateText rejected
PopupResponse(resp) ==
  /\ requests > 0
  /\ requests' = requests - 1
  /\ \/ /\ superseded > 0
        /\ superseded' = superseded - 1
     \/ /\ requests > superseded
        /\ UNCHANGED superseded
  /\ popups' = Append(popups, [st |-> "fresh",
                               error |-> ~TranslateTextResolves(resp)])
  /\ UNCHANGED <<selection, selectionNotices, selectionTimers,
                 selectionChangeTimeout, icon>>
  /\ UNCHANGED <<pageVars, translatorAvailable, coreVars, menuVars, toggleVars>>

\* The 800 ms timer of popup i fires: handleOutsideClick is added to the
\* document
PopupArm(i) ==
  /\ i \in 1..Len(popups)
  /\ popups[i].st = "fresh"
  /\ popups' = [popups EXCEPT ![i].st = "armed"]
  /\ UNCHANGED <<selection, selectionNotices, selectionTimers,
                 selectionChangeTimeout, icon, requests, superseded>>
  /\ UNCHANGED <<pageVars, translatorAvailable, coreVars, menuVars, toggleVars>>

\* The close button of popup i is clicked: closePopup
CloseButtonClick(i) ==
  /\ i \in 1..Len(popups)
  /\ popups' = [popups EXCEPT ![i].st = "closing"]
  /\ UNCHANGED <<selection, selectionNotices, selectionTimers,
                 selectionChangeTimeout, icon, requests, superseded>>
  /\ UNCHANGED <<pageVars, translatorAvailable, coreVars, menuVars, toggleVars>>

\* The 200 ms fade-out of popup i is over
PopupFadeDone(i) ==
  /\ i \in 1..Len(popups)
  /\ popups[i].st = "closing"
  /\ popups' = RemoveAt(popups, i)
  /\ UNCHANGED <<selection, selectionNotices, selectionTimers,
                 selectionChangeTimeout, icon, requests, superseded>>
  /\ UNCHANGED <<pageVars, translatorAvailable, coreVars, menuVars, toggleVars>>

\* handleDocumentClick for a target outside the icon and the popups:
\* hideOverlay
DocumentClickHide(ps) == HideOverlayPopups(ps)

\* A click outside the icon and the popups reaches the document: first
\* handleDocumentClick, then the handleOutsideClick listener of every armed
\* popup still in the document
DocumentClick ==
  /\ ready
  /\ icon' = "none"
  /\ popups' = [i \in 1..Len(DocumentClickHide(popups)) |->
                  IF DocumentClickHide(popups)[i].st = "armed"
                  THEN [DocumentClickHide(popups)[i] EXCEPT !.st = "closing"]
                  ELSE DocumentClickHide(popups)[i]]
  /\ superseded' = requests
  /\ UNCHANGED <<selection, selectionNotices, selectionTimers,
                 selectionChangeTimeout, requests>>
  /\ UNCHANGED <<pageVars, translatorAvailable, coreVars, menuVars, toggleVars>>

OverlayInit ==
  /\ doc = DocPlain
  /\ translatorAvailable \in BOOLEAN
  /\ ready = TRUE
  /\ anns = NoAnnotations(doc)
  /\ scrollY = 0
  /\ isPageTranslated = FALSE
  /\ scrollTranslationHandler = FALSE
  /\ scrollTranslationTimeout = FALSE
  /\ scrollTimers = 0
  /\ lastMessage = "none"
  /\ procs = EmptyBag
  /\ input = NoInput
  /\ output = NoOutput
  /\ OverlayIdle
  /\ MenuIdle
  /\ ToggleIdle

OverlayNext ==
  \/ \E s \in SelectionClasses : Select(s)
  \/ MouseUp
  \/ \E key \in Keys, shiftKey \in BOOLEAN : KeyUp(key, shiftKey)
  \/ SelectionTimerFire
  \/ SelectionChangeTimerFire
  \/ \E y \in 0..1 : DocumentScroll(y)
  \/ IconTimerFire
  \/ IconFadeDone
  \/ IconClick
  \/ \E resp \in Responses : PopupResponse(resp)
  \/ \E i \in 1..MaxPopups : PopupArm(i)
  \/ \E i \in 1..MaxPopups : CloseButtonClick(i)
  \/ \E i \in 1..MaxPopups : PopupFadeDone(i)
  \/ DocumentClick

OverlaySpec == OverlayInit /\ [][OverlayNext]_vars

(***************************************************************************)
(* Toggles of page translation and the mirrored state.  A toggle starts    *)
(* from the context menu (togglePageTranslation of the service worker,     *)
(* surface 0) or from the button of panel p (toggleFullPageTranslation of  *)
(* App.vue, surface p); op holds its local variables and the await it is   *)
(* suspended at.  One toggle is in progress at a time.  A message to the   *)
(* tab, its handling by the content script's listener and the              *)
(* continuation of the sender up to its next await form one step, and so   *)
(* does a runtime message with its handling by the service worker or the   *)
(* panels.                                                                 *)
(***************************************************************************)

\* PING probes of one poll that are followed.
MaxProbes == 12

\* maxRetries of the poll that follows an injection
maxRetries == 10

Urls == {"https", "chrome", "chrome-extension", "moz-extension", "about"}

\* variant: about: pages are not recognised
IsPrivilegedUrl_NoAbout(url) ==
  url \in {"chrome", "chrome-extension", "moz-extension"}

\* tab.url.startsWith('chrome://') || ... || tab.url.startsWith('about:')
IsPrivilegedUrl(url) ==
  url \in {"chrome", "chrome-extension", "moz-extension", "about"}

\* What a PING to the tab can come back with: the listener of a ready
\* content script answers {success: true}; otherwise sendMessage rejects
\* (no receiving end) or resolves without a success answer
PingOutcomes == IF ready THEN {"success"} ELSE {"throw", "noSuccess"}

\* chrome.scripting.executeScript resolves or rejects; it cannot reach a
\* privileged page
InjectOutcomes == IF IsPrivilegedUrl(tabUrl) THEN {"throws"} ELSE {"ok", "throws"}

\* variant: any answer to a PING counts as ready
PingReady_AnyAnswer(outcome) == outcome # "throw"

\* pingResponse && pingResponse.success
PingReady(outcome) == outcome = "success"

\* the reply of the content script's listener to TRANSLATE_PAGE and to
\* CANCEL_TRANSLATE_PAGE: {success: true}
CommandReply == "success"

\* notifyPopupsTranslationStatus: every panel's listener stores the value
NotifyPopupsTranslationStatus(isTranslated) == [p \in Panels |-> isTranslated]

\* handleUpdateContextMenu / chrome.contextMenus.update
MenuTitleFor(isTranslated) == IF isTranslated THEN "cancel" ELSE "translate"

\* a toggle may start: none is in progress
OpFree == op.pc \in {"idle", "done"}

\* The injected content script finishes init()
ContentInitDone ==
  /\ injected
  /\ InitDone

\* Context-menu click: togglePageTranslation up to its first PING
ContextMenuClick ==
  /\ OpFree
  /\ IF IsPrivilegedUrl(tabUrl)
     THEN op' = [IdleOp EXCEPT !.pc = "done", !.outcome = "privileged"]
     ELSE op' = [IdleOp EXCEPT !.pc = "ping"]
  /\ UNCHANGED <<tabUrl, injected, menuTitle, isFullPageTranslating>>
  /\ UNCHANGED <<pageVars, translatorAvailable, coreVars, menuVars, overlayVars>>

\* The button of panel p: toggleFullPageTranslation up to the first PING of
\* sendMessageToContentScript
PanelToggleClick(p) ==
  /\ OpFree
  /\ p \in Panels
  /\ IF isFullPageTranslating[p]
     THEN /\ op' = [IdleOp EXCEPT !.surface = p, !.pc = "ping",
                                  !.type = "CANCEL_TRANSLATE_PAGE"]
          /\ UNCHANGED isFullPageTranslating
     ELSE \* handleFullPageTranslation
          /\ op' = [IdleOp EXCEPT !.surface = p, !.pc = "ping",
                                  !.type = "TRANSLATE_PAGE"]
          /\ isFullPageTranslating' = [isFullPageTranslating EXCEPT ![p] = TRUE]
  /\ UNCHANGED <<tabUrl, injected, menuTitle>>
  /\ UNCHANGED <<pageVars, translatorAvailable, coreVars, menuVars, overlayVars>>

\* The toggle gives up before any command: the service worker returns; a
\* panel's sendMessageToContentScript throws, which handleFullPageTranslation
\* catches (isFullPageTranslating = false) and the cancel path does not
GiveUp(o, why) ==
  /\ op' = [o EXCEPT !.pc = "done", !.outcome = why]
  /\ isFullPageTranslating' =
       IF o.surface \in Panels /\ o.type = "TRANSLATE_PAGE"
       THEN [isFullPageTranslating EXCEPT ![o.surface] = FALSE]
       ELSE isFullPageTranslating

\* the content script is ready: the service worker goes on to
\* GET_TRANSLATION_STATUS, a panel to its command
Proceed(o) ==
  /\ op' = [o EXCEPT !.pc = IF o.surface = 0 THEN "status" ELSE "command",
                     !.contentScriptReady = TRUE]
  /\ UNCHANGED isFullPageTranslating

\* The first PING comes back
FirstPing(outcome) ==
  /\ op.pc = "ping"
  /\ outcome \in PingOutcomes
  /\ LET o == [op EXCEPT !.pingSuccess = (outcome = "success")]
     IN IF PingReady(outcome)
        THEN Proceed(o)
        ELSE /\ op' = [o EXCEPT !.pc = "inject"]
             /\ UNCHANGED isFullPageTranslating
  /\ UNCHANGED <<tabUrl, injected, menuTitle>>
  /\ UNCHANGED <<pageVars, translatorAvailable, coreVars, menuVars, overlayVars>>

\* chrome.scripting.executeScript comes back
Inject(outcome) ==
  /\ op.pc = "inject"
  /\ outcome \in InjectOutcomes
  /\ IF outcome = "ok"
     THEN /\ injected' = TRUE
          /\ op' = [op EXCEPT !.pc = "poll", !.injected = TRUE]
          /\ UNCHANGED isFullPageTranslating
     ELSE /\ GiveUp(op, "injectFailed")
          /\ UNCHANGED injected
  /\ UNCHANGED <<tabUrl, menuTitle>>
  /\ UNCHANGED <<pageVars, translatorAvailable, coreVars, menuVars, overlayVars>>

\* retries after one probe of the poll: retries++ sits in the catch block
RetriesAfterProbe(retries, outcome) ==
  IF outcome = "throw" THEN retries + 1 ELSE retries

\* One round of the poll: 200 ms pause, PING, answer
PollPing(outcome) ==
  /\ op.pc = "poll"
  /\ op.retries < maxRetries
  /\ op.probes < MaxProbes
  /\ outcome \in PingOutcomes
  /\ LET o == [op EXCEPT !.probes = @ + 1,
                         !.pingSuccess = (outcome = "success"),
                         !.retries = RetriesAfterProbe(@, outcome)]
     IN IF PingReady(outcome)
        THEN Proceed(o)
        ELSE IF o.retries < maxRetries
             THEN /\ op' = o
                  /\ UNCHANGED isFullPageTranslating
             ELSE GiveUp(o, "timeout")
  /\ UNCHANGED <<tabUrl, injected, menuTitle>>
  /\ UNCHANGED <<pageVars, translatorAvailable, coreVars, menuVars, overlayVars>>

\* The service worker's GET_TRANSLATION_STATUS is answered
QueryStatus ==
  /\ op.pc = "status"
  /\ ready
  /\ op' = [op EXCEPT !.pc = "command",
                      !.type = IF GetTranslationStatus.isTranslated
                               THEN "CANCEL_TRANSLATE_PAGE"
                               ELSE "TRANSLATE_PAGE"]
  /\ UNCHANGED <<tabUrl, injected, menuTitle, isFullPageTranslating>>
  /\ UNCHANGED <<pageVars, translatorAvailable, coreVars, menuVars, overlayVars>>

\* what the sender of TRANSLATE_PAGE does with the reply: the service worker
\* sets the menu title and notifies the panels; a panel keeps
\* isFullPageTranslating unless translatedCount === 0 and asks the service
\* worker to update the menu
AfterTranslateReply(o, reply) ==
  IF o.surface = 0
  THEN IF reply = "success"
       THEN /\ menuTitle' = MenuTitleFor(TRUE)
            /\ isFullPageTranslating' = NotifyPopupsTranslationStatus(TRUE)
       ELSE UNCHANGED <<menuTitle, isFullPageTranslating>>
  ELSE IF reply = "success"
       THEN /\ menuTitle' = MenuTitleFor(TRUE)
            /\ UNCHANGED isFullPageTranslating
       ELSE /\ isFullPageTranslating' =
                 [isFullPageTranslating EXCEPT ![o.surface] = FALSE]
            /\ UNCHANGED menuTitle

\* what the sender of CANCEL_TRANSLATE_PAGE does with the reply
AfterCancelReply(o) ==
  IF o.surface = 0
  THEN /\ menuTitle' = MenuTitleFor(FALSE)
       /\ isFullPageTranslating' = NotifyPopupsTranslationStatus(FALSE)
  ELSE /\ menuTitle' = MenuTitleFor(FALSE)
       /\ isFullPageTranslating' =
            [isFullPageTranslating EXCEPT ![o.surface] = FALSE]

\* TRANSLATE_PAGE is sent, handled by the listener and answered
SendTranslatePage ==
  /\ op.pc = "command"
  /\ op.type = "TRANSLATE_PAGE"
  /\ HandleTranslatePage
  /\ op' = [op EXCEPT !.pc = "done", !.sent = "TRANSLATE_PAGE",
                      !.response = CommandReply, !.outcome = "sent"]
  /\ AfterTranslateReply(op, CommandReply)
  /\ UNCHANGED <<tabUrl, injected>>
  /\ UNCHANGED <<coreVars, menuVars, overlayVars>>

\* CANCEL_TRANSLATE_PAGE is sent, handled by the listener and answered
SendCancelTranslatePage ==
  /\ op.pc = "command"
  /\ op.type = "CANCEL_TRANSLATE_PAGE"
  /\ HandleCancelTranslatePage
  /\ op' = [op EXCEPT !.pc = "done", !.sent = "CANCEL_TRANSLATE_PAGE",
                      !.response = CommandReply, !.outcome = "sent"]
  /\ AfterCancelReply(op)
  /\ UNCHANGED <<tabUrl, injected>>
  /\ UNCHANGED <<coreVars, menuVars, overlayVars>>

ToggleInit ==
  /\ doc = DocShared
  /\ translatorAvailable \in BOOLEAN
  /\ tabUrl \in Urls
  /\ injected \in IF IsPrivilegedUrl(tabUrl) THEN {FALSE} ELSE BOOLEAN
  /\ ready = FALSE
  /\ anns = NoAnnotations(doc)
  /\ scrollY = 0
  /\ isPageTranslated = FALSE
  /\ scrollTranslationHandler = FALSE
  /\ scrollTranslationTimeout = FALSE
  /\ scrollTimers = 0
  /\ lastMessage = "none"
  /\ procs = EmptyBag
  /\ input = NoInput
  /\ output = NoOutput
  /\ OverlayIdle
  /\ MenuIdle
  /\ menuTitle = "translate"
  /\ isFullPageTranslating = [p \in Panels |-> FALSE]
  /\ op = IdleOp

ToggleNext ==
  \/ ContentInitDone
  \/ ContextMenuClick
  \/ \E p \in Panels : PanelToggleClick(p)
  \/ \E outcome \in {"success", "throw", "noSuccess"} : FirstPing(outcome)
  \/ \E outcome \in {"ok", "throws"} : Inject(outcome)
  \/ \E outcome \in {"success", "throw", "noSuccess"} : PollPing(outcome)
  \/ QueryStatus
  \/ SendTranslatePage
  \/ SendCancelTranslatePage
  \/ \E r \in Running, resp \in Responses : SweepResponse(r, resp)
  \/ \E r \in Running : SweepSleepDone(r)

ToggleSpec == ToggleInit /\ [][ToggleNext]_vars

(***************************************************************************)
(* The context-menu label and the tab events.  The service worker has one  *)
(* menu item for the whole browser.  handleTabActivated and                *)
(* handleTabUpdated start a 500 ms timer each, and the timer calls         *)
(* updateContextMenuForTab for the tab of the event: it awaits             *)
(* chrome.tabs.get, returns for a privileged URL, and otherwise awaits the *)
(* tab's answer to GET_TRANSLATION_STATUS and sets the title.  Timers of   *)
(* equal delay fire, and chrome.tabs.get resolves, in the order of the     *)
(* calls; the answers of different tabs arrive in any order.  The content  *)
(* session of a tab does not change here.                                  *)
(***************************************************************************)

\* Tabs in the window.
NumTabs == 2

Tabs == 1..NumTabs

\* updateContextMenuForTab calls that may be under way at once.
MaxUpdates == 2

\* a web page whose content session reports translated or untranslated, or
\* has no listener, and a browser page, which has no content session
TabStates ==
  {[url |-> "https", session |-> s] :
     s \in {"translated", "untranslated", "unreachable"}}
    \cup {[url |-> "chrome", session |-> "unreachable"]}

\* the URL test of updateContextMenuForTab
IsPrivilegedTab(url) ==
  url \in {"chrome", "chrome-extension", "moz-extension", "about"}

\* the title updateContextMenuForTab sets for what sendMessage gives: the
\* answer {isTranslated}, or a rejection, which the inner catch handles
StatusTitle(session) ==
  CASE session = "translated" -> "cancel"
    [] session = "untranslated" -> "translate"
    [] session = "unreachable" -> "translate"

\* chrome.tabs.onActivated: handleTabActivated starts its timer
TabActivated(t) ==
  /\ t \in Tabs
  /\ t # activeTab
  /\ Len(updates) < MaxUpdates
  /\ activeTab' = t
  /\ updates' = Append(updates, [tabId |-> t, pc |-> "timer"])
  /\ UNCHANGED tabs
  /\ UNCHANGED <<pageVars, translatorAvailable, coreVars, overlayVars,
                 toggleVars>>

\* chrome.tabs.onUpdated with status 'complete' for any tab:
\* handleTabUpdated starts its timer
TabUpdated(t) ==
  /\ t \in Tabs
  /\ Len(updates) < MaxUpdates
  /\ updates' = Append(updates, [tabId |-> t, pc |-> "timer"])
  /\ UNCHANGED <<activeTab, tabs>>
  /\ UNCHANGED <<pageVars, translatorAvailable, coreVars, overlayVars,
                 toggleVars>>

\* the oldest pending timer fires: updateContextMenuForTab runs up to
\* await chrome.tabs.get
UpdateTimerFire(i) ==
  /\ i \in 1..Len(updates)
  /\ updates[i].pc = "timer"
  /\ \A j \in 1..(i - 1) : updates[j].pc # "timer"
  /\ updates' = [updates EXCEPT ![i].pc = "get"]
  /\ UNCHANGED <<activeTab, tabs>>
  /\ UNCHANGED <<pageVars, translatorAvailable, coreVars, overlayVars,
                 toggleVars>>

\* chrome.tabs.get resolves: return for a privileged URL, otherwise send
\* GET_TRANSLATION_STATUS to the tab
UpdateTabGot(i) ==
  /\ i \in 1..Len(updates)
  /\ updates[i].pc = "get"
  /\ \A j \in 1..(i - 1) : updates[j].pc = "status"
  /\ updates' = IF IsPrivilegedTab(tabs[updates[i].tabId].url)
                THEN RemoveAt(updates, i)
                ELSE [updates EXCEPT ![i].pc = "status"]
  /\ UNCHANGED <<activeTab, tabs>>
  /\ UNCHANGED <<pageVars, translatorAvailable, coreVars, overlayVars,
                 toggleVars>>

\* the tab answers GET_TRANSLATION_STATUS, or sendMessage rejects:
\* chrome.contextMenus.update
UpdateStatusResponse(i) ==
  /\ i \in 1..Len(updates)
  /\ updates[i].pc = "status"
  /\ menuTitle' = StatusTitle(tabs[updates[i].tabId].session)
  /\ updates' = RemoveAt(updates, i)
  /\ UNCHANGED <<activeTab, tabs>>
  /\ UNCHANGED <<pageVars, translatorAvailable, coreVars, overlayVars,
                 tabUrl, injected, isFullPageTranslating, op>>

\* one tab is active, the label is the one an update for that tab has set,
\* and no update is under way
MenuInit ==
  /\ doc = DocPlain
  /\ translatorAvailable = TRUE
  /\ ready = TRUE
  /\ anns = NoAnnotations(doc)
  /\ scrollY = 0
  /\ isPageTranslated = FALSE
  /\ scrollTranslationHandler = FALSE
  /\ scrollTranslationTimeout = FALSE
  /\ scrollTimers = 0
  /\ lastMessage = "none"
  /\ procs = EmptyBag
  /\ input = NoInput
  /\ output = NoOutput
  /\ OverlayIdle
  /\ tabUrl = "https"
  /\ injected = TRUE
  /\ isFullPageTranslating = [p \in Panels |-> FALSE]
  /\ op = IdleOp
  /\ activeTab \in Tabs
  /\ tabs \in [Tabs -> TabStates]
  /\ menuTitle = StatusTitle(tabs[activeTab].session)
  /\ updates = <<>>

MenuNext ==
  \/ \E t \in Tabs : TabActivated(t)
  \/ \E t \in Tabs : TabUpdated(t)
  \/ \E i \in 1..MaxUpdates : UpdateTimerFire(i)
  \/ \E i \in 1..MaxUpdates : UpdateTabGot(i)
  \/ \E i \in 1..MaxUpdates : UpdateStatusResponse(i)

MenuSpec == MenuInit /\ [][MenuNext]_vars

(***************************************************************************)
(* Properties                                                              *)
(***************************************************************************)

LastFragment(r) == ~(r.i < Len(r.nodes))

FailedAnnotations ==
  {f \in Nodes(doc) : \E k \in 1..Len(anns[f]) : anns[f][k] = "failed"}

\* C1: once cancel has been handled while a full sweep is suspended, that
\* sweep attaches no annotation any more (the response in flight is
\* discarded) and sends no further translate request.
C1_NoAnnotationAfterCancel ==
  [][\A r \in Running :
       (r.kind = "sweep" /\ r.cancelSeen) =>
         /\ ~SweepSleepDone(r)
         /\ \A resp \in Responses : SweepResponse(r, resp) => anns' = anns]_vars

\* C2: when the loop of a full sweep ends after cancel was handled during
\* the sweep, and no TRANSLATE_PAGE was received since, the session is
\* Idle: isPageTranslated is false and no scroll listener is attached.
C2_IdleAfterCancelledSweep ==
  [][\A r \in Running, resp \in Responses :
       ( /\ r.kind = "sweep"
         /\ r.cancelSeen
         /\ LastFragment(r)
         /\ BagCardinality(procs) = 1
         /\ lastMessage = "cancelled"
         /\ SweepResponse(r, resp) ) =>
         (~isPageTranslated' /\ ~scrollTranslationHandler')]_vars

\* C3: at most one fragment translation request of the page is outstanding
\* at any time.
C3_AtMostOneOutstanding == Outstanding <= 1

\* C4: when a full sweep ends without cancel, every fragment it collected
\* carries exactly one annotation, so N fragments yield N annotations.
C4_OneAnnotationPerFragment ==
  [][\A r \in Running, resp \in Responses :
       ( /\ r.kind = "sweep"
         /\ ~r.cancelSeen
         /\ LastFragment(r)
         /\ BagCardinality(procs) = 1
         /\ SweepResponse(r, resp) ) =>
         \A k \in 1..Len(r.nodes) : Len(anns'[r.nodes[k]]) = 1]_vars

\* C5 as stated: GET_TRANSLATION_STATUS reports translated from the moment
\* the first fragment of a running sweep got a 'translated' annotation.
C5_TranslatedAtFirstAnnotation ==
  \A r \in Running :
    (r.kind = "sweep" /\ ~r.cancelSeen /\ r.translatedCount > 0) =>
      GetTranslationStatus.isTranslated

\* C5 amended: the translated state does not become true while the loop of a
\* full sweep is running, whatever annotation a fragment receives; it
\* becomes true only at the step that ends a sweep, when the response for the
\* sweep's last fragment has been handled.
C5_TranslatedOnlyAfterLoop ==
  [][(~isPageTranslated /\ isPageTranslated') =>
       \E r \in Running :
         /\ r.kind = "sweep" /\ r.pc = "await" /\ LastFragment(r)
         /\ procs' = Remove(r)]_vars

\* a sweep is between two fragments, has translated one, and the page still
\* reports untranslated
C5_Witness ==
  \E r \in Running :
    /\ r.kind = "sweep" /\ r.pc = "sleep" /\ ~r.cancelSeen
    /\ r.translatedCount > 0
    /\ \E f \in Nodes(doc) : anns[f] = <<"translated">>
    /\ ~GetTranslationStatus.isTranslated

\* C6: when the loop of a full sweep ends without cancel, isPageTranslated
\* is true exactly if a fragment of that sweep got a 'translated'
\* annotation; a TRANSLATE_PAGE that finds no fragment shows the 'nothing
\* to translate' message and changes nothing else.
C6_TranslatedIffSomeFragment ==
  [][/\ \A r \in Running :
          ( /\ r.kind = "sweep"
            /\ ~r.cancelSeen
            /\ procs' = Remove(r) ) =>
            (isPageTranslated' <=>
               (r.translatedCount > 0 \/ Head(anns'[r.nodes[r.i]]) = "translated"))
     /\ (lastMessage' = "noVisibleText" /\ lastMessage # "noVisibleText") =>
          /\ Len(GetVisibleTextNodes(doc, anns, scrollY)) = 0
          /\ UNCHANGED <<anns, isPageTranslated, scrollTranslationHandler,
                         scrollTranslationTimeout, procs>>]_vars

\* a sweep has ended with every fragment failed on a page that was not
\* translated before
C6_Witness ==
  /\ lastMessage = "noneTranslated"
  /\ procs = EmptyBag
  /\ FailedAnnotations # {}
  /\ ~isPageTranslated

\* C7: a session that attaches to a document carrying annotation markers
\* starts out Translated.
C7_ReattachStartsTranslated ==
  [][InitDone => (AnnotationCount(doc, anns) > 0 => isPageTranslated')]_vars

\* C8: the scroll re-scan handles the response for a fragment as the full
\* sweep does: it attaches the annotation the sweep would attach for that
\* outcome and pauses before the next fragment.
C8_RescanSamePolicy ==
  [][\A r \in Running, resp \in Responses :
       (r.kind = "rescan" /\ BagCardinality(procs) = 1 /\ RescanResponse(r, resp)) =>
         /\ anns' = AppendTranslationToNode(doc, anns, r.nodes[r.i],
                                            ~SweepTranslated(resp))
         /\ ~LastFragment(r) =>
              \E q \in BagToSet(procs') : q.kind = "rescan" /\ q.pc = "sleep"]_vars

\* C9: after cancel the scroll path does nothing: a re-scan that was
\* suspended when cancel was handled attaches no annotation and sends no
\* further request, and no debounce timer starts a re-scan.
C9_ScrollPathStopsAfterCancel ==
  [][/\ \A r \in Running, resp \in Responses :
          ( /\ r.kind = "rescan"
            /\ r.cancelSeen
            /\ BagCardinality(procs) = 1
            /\ RescanResponse(r, resp) ) =>
            (anns' = anns /\ LastFragment(r))
     /\ (lastMessage = "cancelled" /\ ScrollTimerFire) => UNCHANGED procs]_vars

\* C10: with the translation capability absent no fragment translation
\* request is sent and no fragment gets a 'failed' annotation.
C10_NoRequestWithoutCapability ==
  ~translatorAvailable => (Outstanding = 0 /\ FailedAnnotations = {})

\* C11: in a full sweep without cancel, the fragment whose response arrives
\* gets a 'translated' annotation exactly when the request succeeded with a
\* non-empty text different from the original, and a 'failed' annotation
\* otherwise; whatever the outcome the sweep goes on with the next fragment
\* and ends only after the response for its last fragment.
C11_AnnotationFollowsOutcome ==
  [][\A r \in Running :
       (r.kind = "sweep" /\ ~r.cancelSeen /\ r.pc = "await") =>
         /\ \A o \in EngineOutcomes :
              ( /\ CopiesIn(r, procs') < CopiesIn(r, procs)
                /\ SweepResponse(r, HandleTranslateRequest(translatorAvailable, o)) ) =>
                /\ Head(anns'[r.nodes[r.i]]) =
                     IF translatorAvailable /\ o = "T" THEN "translated"
                     ELSE "failed"
                /\ ~LastFragment(r) =>
                     \E q \in BagToSet(procs') :
                       /\ q.kind = "sweep" /\ q.pc = "sleep"
                       /\ q.nodes = r.nodes /\ q.i = r.i
         /\ procs' = Remove(r) => LastFragment(r)]_vars

\* a sweep has sent the request for its second fragment after its first
\* fragment was annotated 'failed'
C11_Witness ==
  \E r \in Running :
    /\ r.kind = "sweep" /\ ~r.cancelSeen /\ r.pc = "await" /\ r.i = 2
    /\ anns[r.nodes[1]] = <<"failed">>

\* number of full sweeps in bag b that wait for a TRANSLATE_TEXT response
SweepRequests(b) ==
  BagCardinality([r \in {q \in BagToSet(b) : q.kind = "sweep" /\ q.pc = "await"}
                    |-> CopiesIn(r, b)])

SweepInFlight == \E r \in Running : r.kind = "sweep"

\* C13: a cancel handled while the page is translated and no sweep is in
\* flight leaves no annotation in the document, no scroll-translation
\* listener, no pending debounce timer, and isPageTranslated false.
C13_CancelTearsDown ==
  [][(isPageTranslated /\ ~SweepInFlight /\ lastMessage' = "cancelled") =>
       /\ AnnotationCount(doc, anns') = 0
       /\ ~scrollTranslationHandler'
       /\ ~scrollTranslationTimeout'
       /\ ~isPageTranslated']_vars

\* the page is translated, with an annotation, the listener attached and a
\* debounce timer pending, no invocation is in flight, and the cancel
\* message can be handled
C13_Witness ==
  /\ ready
  /\ isPageTranslated
  /\ procs = EmptyBag
  /\ AnnotationCount(doc, anns) > 0
  /\ scrollTranslationHandler /\ scrollTranslationTimeout

\* C14: a cancel handled while the session is Idle (isPageTranslated false,
\* no sweep in flight) changes neither the annotations in the document nor
\* the scroll listener nor the translated flag.
C14_CancelWhenIdleIsNoOp ==
  [][(~isPageTranslated /\ ~SweepInFlight /\ CancelTranslatePage) =>
       UNCHANGED <<anns, scrollTranslationHandler, isPageTranslated>>]_vars

\* the primary subtag of a language tag: its lower-cased characters up to
\* the first '-' or '_'
PrimarySubtag(tag) ==
  LET lower == ToLowerCase(tag)
      ends  == {k \in 1..Len(lower) : lower[k] \in {"-", "_"}}
  IN IF ends = {} THEN lower
     ELSE SubSeq(lower, 1, (CHOOSE k \in ends : \A j \in ends : k <= j) - 1)

\* the source language smartTranslate works with: the given tag, or the
\* detector's answer ('en' when it has none) when the source is 'auto'
ResolvedSource ==
  IF input.sourceLanguage # Auto THEN input.sourceLanguage
  ELSE IF input.detection.kind = "tag" THEN input.detection.tag
  ELSE DefaultLanguage

C16_DetectNeverRaises ==
  output.op = "detectLanguage" =>
    /\ ~output.ret.threw
    /\ input.detection.kind \in DetectFailureKinds =>
         output.ret.value = <<"e", "n">>

\* detectLanguage has answered 'en' although creating the detector threw
C16_Witness ==
  /\ output.op = "detectLanguage"
  /\ input.detection.kind = "createThrows"
  /\ ~output.ret.threw
  /\ output.ret.value = <<"e", "n">>

\* C17: on every request path (TRANSLATE_TEXT, TRANSLATE_STREAMING, the
\* panel's translate action) a request with source 'auto' whose detection
\* fails or whose detector is absent is not answered with a detection error:
\* it goes on with source 'en', to the translation when the target is
\* another language.
C17_DetectionFailureNeverBlocks ==
  ( /\ output.op \in {"TRANSLATE_TEXT", "TRANSLATE_STREAMING", "handleTranslate"}
    /\ input.sourceLanguage = Auto
    /\ input.detection.kind \in DetectFailureKinds
    /\ Trim(input.texts[1]) # <<>>
    /\ translatorAvailable ) =>
    /\ output.ret.error \notin {"detectorUnavailable", "detectionFailed"}
    /\ output.ret.sourceLanguage = <<"e", "n">>
    /\ PrimarySubtag(input.targetLanguage) # <<"e", "n">> =>
         output.ret.translateCalls = 1

\* text i of the batch makes smartTranslate throw: it is blank, or it needs
\* the engine and the engine is absent or throws
ItemFails(i) ==
  \/ Trim(input.texts[i]) = <<>>
  \/ /\ PrimarySubtag(ResolvedSource) # PrimarySubtag(input.targetLanguage)
     /\ (~translatorAvailable \/ input.engine[i] = "throw")

Range(q) == {q[k] : k \in 1..Len(q)}

\* C19: once a full sweep, alone and without cancel, has annotated every
\* fragment its scan returned, a further scan returns none of them.
C19_ScanEmptyAfterAnnotation ==
  [][\A r \in Running, resp \in Responses :
       ( /\ r.kind = "sweep"
         /\ ~r.cancelSeen
         /\ LastFragment(r)
         /\ BagCardinality(procs) = 1
         /\ SweepResponse(r, resp) ) =>
         Range(r.nodes) \cap Range(GetPageTextNodes(doc, anns')) = {}]_vars

\* the text nodes the claim describes, for the current document, annotations
\* and scroll offset
QualifyingFragments ==
  {f \in Nodes(doc) :
     LET parent == doc.nodeParent[f]
     IN /\ doc.elemTag[parent] \notin
             {"script", "style", "noscript", "meta", "title", "head"}
        /\ \A e \in 1..Len(doc.elemParent) :
             doc.elemId[e] \in {"chrome-ai-translator-icon",
                                "chrome-ai-translator-popup",
                                "translation-progress"}
               => ~Contains(doc, e, parent)
        /\ doc.nodeLen[f] >= 1 /\ doc.nodeLen[f] <= 500
        /\ doc.nodeLetters[f]
        /\ \A g \in Nodes(doc) :
             anns[g] # <<>> => ~Contains(doc, parent, doc.nodeParent[g])
        /\ doc.width[parent] > 0 /\ doc.bottom[parent] > doc.top[parent]
        /\ doc.bottom[parent] > scrollY
        /\ doc.top[parent] < scrollY + doc.innerHeight}

\* C20: the list of fragments a full sweep starts with holds, in document
\* order, exactly the text nodes that qualify: parent not a non-content tag
\* and not inside the extension's icon, popup or progress banner, trimmed
\* length 1..500 with a Latin, CJK or Kana character, no annotation under
\* the parent, parent box of non-zero size overlapping the viewport; a
\* 'nothing to translate' message appears only when no text node qualifies.
C20_VisibleScanIsExact ==
  [][/\ \A q \in BagToSet(procs') :
          ( /\ q.kind = "sweep" /\ q.pc = "await" /\ q.i = 1 /\ ~q.cancelSeen
            /\ CopiesIn(q, procs') > CopiesIn(q, procs) ) =>
            /\ Range(q.nodes) = QualifyingFragments
            /\ \A k \in 1..(Len(q.nodes) - 1) : q.nodes[k] < q.nodes[k + 1]
     /\ (lastMessage' = "noVisibleText" /\ lastMessage # "noVisibleText") =>
          QualifyingFragments = {}]_vars

\* a sweep runs on the page with a script, an over-long text, digits, the
\* extension's popup and an empty box: it started with the two qualifying
\* text nodes
C20_Witness ==
  /\ Len(doc.nodeParent) = 7
  /\ \E r \in Running : r.kind = "sweep" /\ r.nodes = <<1, 7>>

\* C21: while a popup is in the document, the selection handling of a
\* mouseup or keyup (its 100 ms timeout), the debounced selectionchange
\* handling and a document scroll leave every popup in place when the
\* selection is empty (a scroll: whatever the selection); with no popup in
\* the document the two selection handlers remove the icon when they find
\* the selection empty.
C21_PopupSurvivesEmptySelection ==
  [][/\ ((selectionTimers' < selectionTimers \/
          (selectionChangeTimeout /\ ~selectionChangeTimeout')) /\
         selection = "empty") =>
           IF HasPopup(popups) THEN popups' = popups ELSE icon' = "none"
     /\ (scrollY' # scrollY /\ HasPopup(popups)) => popups' = popups]_vars

\* the debounced selectionchange handling has run on an empty selection
\* while a popup was present: icon and popup are both still there
C21_Witness ==
  /\ HasPopup(popups)
  /\ icon # "none"
  /\ selection = "empty"
  /\ ~selectionChangeTimeout
  /\ selectionTimers = 0
  /\ scrollY = 1

\* C22: an icon click removes the icon; as long as a translate request of
\* showTranslationPopup is pending the document holds no popup; a popup is
\* added only by the step that handles a response, and every response adds
\* one: with the result when the request succeeded, with an error when it
\* failed.
C22_PopupOnlyAfterResponse ==
  [][/\ requests' > requests => icon' = "none"
     /\ requests' > 0 => popups' = <<>>
     /\ Len(popups') > Len(popups) => requests' < requests
     /\ \A resp \in Responses :
          (requests' < requests /\ PopupResponse(resp)) =>
            /\ Len(popups') = Len(popups) + 1
            /\ popups'[Len(popups')].error = ~resp.success]_vars

\* C23: a click outside the popups leaves in place, unchanged, every popup
\* whose 800 ms timer has not fired yet; a popup leaves the document only
\* through closePopup, that is after its close button was clicked or after
\* an outside click that found its listener armed.
C23_EarlyOutsideClickKeepsPopup ==
  [][/\ DocumentClick =>
          \A i \in 1..Len(popups) :
            popups[i].st = "fresh" =>
              (Len(popups') = Len(popups) /\ popups'[i] = popups[i])
     /\ Len(popups') < Len(popups) =>
          \E i \in 1..Len(popups) :
            popups[i].st = "closing" /\ popups' = RemoveAt(popups, i)]_vars

\* C24: while the selection is longer than 5000 characters, at most one
\* 'selection too long' toast has been shown for it, and once the selection
\* handling of a mouseup or keyup has shown that toast the document holds
\* no icon.
C24_TooLongSelectionOneNotice ==
  selection = "long" =>
    /\ selectionNotices <= 1
    /\ selectionNotices = 1 => icon = "none"

\* C25: a toggle that has sent TRANSLATE_PAGE or CANCEL_TRANSLATE_PAGE (or
\* is about to: it has reached the status query or the command) got a
\* success answer to its latest PING; when that was not its first PING, the
\* content script was injected before the poll; a toggle that gave up
\* without a successful PING has sent no command.
C25_CommandOnlyAfterPing ==
  /\ (op.sent # "" \/ op.pc \in {"status", "command"}) =>
       /\ op.pingSuccess
       /\ op.probes > 0 => op.injected
  /\ op.pc = "inject" => ~op.pingSuccess /\ op.sent = ""
  /\ (op.pc = "done" /\ ~op.pingSuccess) => op.sent = ""

\* a toggle whose first PING failed has injected the content script, polled
\* more than once and then sent TRANSLATE_PAGE
C25_Witness ==
  /\ op.sent = "TRANSLATE_PAGE"
  /\ op.injected
  /\ op.probes > 1
  /\ op.pingSuccess

\* C26: the poll that follows an injection sends at most maxRetries (10)
\* PINGs, whatever the tab answers (a probe that throws and a probe that is
\* answered without success both count against the bound); after that the
\* toggle has given up or gone on.
C26_PollBounded == op.probes <= maxRetries

\* C27: when a toggle has sent its command and is over, and no sweep of the
\* content session is in flight any more, the mirrored state agrees with
\* the content session: the menu title is 'cancel page translation' exactly
\* if isPageTranslated is true, and so is every panel's
\* isFullPageTranslating.
C27_MirrorAgreesAfterToggle ==
  (op.pc = "done" /\ op.sent # "" /\ procs = EmptyBag) =>
    /\ (menuTitle = "cancel") <=> isPageTranslated
    /\ \A p \in Panels : isFullPageTranslating[p] <=> isPageTranslated

\* C28: at the step in which the sender of TRANSLATE_PAGE gets its reply, no
\* sweep is in flight any more, and the reply reports the outcome: success
\* with a count if isPageTranslated has become true (some fragment was
\* translated), a failure otherwise.
C28_ReplyAfterSweep ==
  [][(op.sent = "" /\ op'.sent = "TRANSLATE_PAGE") =>
       /\ ~(\E r \in BagToSet(procs') : r.kind = "sweep")
       /\ op'.response = IF isPageTranslated' THEN "successWithCount"
                         ELSE "failure"]_vars

\* C29: the step in which a toggle, started from the context menu or from a
\* panel, has its translate or cancel command answered broadcasts the new
\* state: every panel other than the one that started it then shows
\* 'translated' exactly if the command was TRANSLATE_PAGE.
C29_EveryChangeIsBroadcast ==
  [][(op.sent = "" /\ op'.sent # "") =>
       \A p \in Panels :
         p # op.surface =>
           (isFullPageTranslating'[p] <=> (op'.sent = "TRANSLATE_PAGE"))]_vars

\* C30: a context-menu toggle on a tab whose URL starts with chrome://,
\* chrome-extension://, moz-extension:// or about: is over at once: it waits
\* for no PING, injection or retry, has sent no command, and leaves the menu
\* title, every panel's state, the content script and the page unchanged.
C30_PrivilegedToggleDoesNothing ==
  [][(tabUrl \in {"chrome", "chrome-extension", "moz-extension", "about"} /\
      ContextMenuClick) =>
       /\ op'.pc = "done"
       /\ op'.sent = "" /\ op'.probes = 0 /\ op'.retries = 0
       /\ ~op'.injected /\ ~op'.pingSuccess
       /\ UNCHANGED <<menuTitle, isFullPageTranslating, injected, pageVars>>]_vars

\* the context-menu toggle has run on an about: tab and returned at its
\* URL check
C30_Witness ==
  /\ tabUrl = "about"
  /\ op.surface = 0
  /\ op.pc = "done"
  /\ op.outcome = "privileged"

\* C31: a TRANSLATE_TEXT request is answered exactly once, with a result
\* when it succeeds and with an error otherwise; a text that is empty or
\* blank, a text of more than 5000 characters and a request that finds no
\* engine capability are refused before the detector or the engine is
\* called
C31_OneReplyGuardsFirst ==
  output.op = "TRANSLATE_TEXT" =>
    /\ output.ret.replies = 1
    /\ output.ret.success <=> output.ret.error = "none"
    /\ ( \/ Trim(input.texts[1]) = <<>>
         \/ Len(input.texts[1]) > 5000
         \/ ~translatorAvailable ) =>
         /\ ~output.ret.success
         /\ output.ret.detectCalls = 0
         /\ output.ret.translateCalls = 0

C31_Witness ==
  /\ output.op = "TRANSLATE_TEXT"
  /\ Len(input.texts[1]) > 5000
  /\ translatorAvailable
  /\ input.sourceLanguage = Auto
  /\ output.ret.error = "tooLong"
  /\ output.ret.detectCalls = 0

\* C32: normalizeLanguage gives the lower-cased first subtag of a tag (what
\* precedes its first '-' or '_'), the empty string for null and for the
\* empty string, and the same again when applied to its own result; en-US
\* and en-GB normalise alike, and zh_CN and zh-Hans both normalise to zh
C32_NormalizeFirstSubtag ==
  output.op = "normalizeLanguage" =>
    /\ input.sourceLanguage \in {Null, <<>>} => output.ret.value = <<>>
    /\ input.sourceLanguage \notin {Null, <<>>} =>
         output.ret.value = PrimarySubtag(input.sourceLanguage)
    /\ output.ret.again = output.ret.value
    /\ ( /\ input.sourceLanguage = <<"e", "n", "-", "U", "S">>
         /\ input.targetLanguage = <<"e", "n", "-", "G", "B">> ) =>
         output.ret.value = output.ret.other
    /\ ( /\ input.sourceLanguage = <<"z", "h", "_", "C", "N">>
         /\ input.targetLanguage = <<"z", "h", "-", "H", "a", "n", "s">> ) =>
         /\ output.ret.value = <<"z", "h">>
         /\ output.ret.other = <<"z", "h">>

C32_Witness ==
  /\ output.op = "normalizeLanguage"
  /\ input.sourceLanguage = <<"e", "n", "-", "U", "S">>
  /\ input.targetLanguage = <<"e", "n", "-", "G", "B">>
  /\ output.ret.value = <<"e", "n">>
  /\ output.ret.other = <<"e", "n">>

\* number of re-scans in bag b
Rescans(b) ==
  BagCardinality([r \in {q \in BagToSet(b) : q.kind = "rescan"}
                    |-> CopiesIn(r, b)])

\* C33: at most one scroll-debounce timer is pending at any time; a scroll
\* event seen by the attached listener leaves exactly one pending timer, the
\* one it has just started; and a re-scan starts only when that one timer
\* fires on a translated page, after which no timer is pending: a burst of
\* scroll events starts one re-scan, after its last event
C33_OneDebounceTimer ==
  [][/\ scrollTimers' <= 1
     /\ (scrollY' # scrollY /\ scrollTranslationHandler) =>
          (scrollTimers' = 1 /\ scrollTranslationTimeout')
     /\ Rescans(procs') > Rescans(procs) =>
          /\ isPageTranslated
          /\ scrollTranslationTimeout /\ scrollTimers = 1
          /\ ~scrollTranslationTimeout' /\ scrollTimers' = 0
          /\ Rescans(procs') = Rescans(procs) + 1]_vars

\* a re-scan started by the debounce timer is running and no timer is left
C33_Witness ==
  /\ isPageTranslated
  /\ scrollY = 1
  /\ Rescans(procs) = 1
  /\ scrollTimers = 0
  /\ scrollTranslationHandler

\* C34: in batchTranslate a pause separates every two consecutive
\* smartTranslate calls, whether the earlier call succeeded or failed
C34_PauseBetweenCalls ==
  output.op = "batchTranslate" =>
    \A k \in 1..(Len(output.ret.trace) - 1) :
       output.ret.trace[k] = "smartTranslate" =>
         output.ret.trace[k + 1] = "pause"

\* C35: a call of attemptDownload on a manager created with maxRetries = n
\* invokes the download function at most n times and resolves to a result
\* object, success or "cannot retry"; it never rejects and never resolves to
\* undefined, also when it is called again after the retries were used up
C35_AttemptDownloadAlwaysResolves ==
  output.op = "attemptDownload" =>
    \A k \in 1..Len(output.ret) :
       /\ output.ret[k].downloads <= input.maxRetries
       /\ output.ret[k].settled = "resolved"
       /\ output.ret[k].value \in {"success", "cannotRetry"}

\* C36: the local normalisation of the TRANSLATE_STREAMING handler gives two
\* tags the same value exactly when normalizeLanguage does, and a
\* TRANSLATE_STREAMING request that passes the handler's checks is answered
\* by the same-language short-circuit (streaming false, the input text as
\* the result, no engine call) exactly when smartTranslate, given the
\* resolved source and the target, returns the text without an engine call
C36_StreamingShortCircuitAgrees ==
  /\ output.op = "__norm" =>
       ( output.ret.value = output.ret.other <=>
           NormalizeLanguage(input.sourceLanguage)
             = NormalizeLanguage(input.targetLanguage) )
  /\ (output.op = "TRANSLATE_STREAMING" /\ output.ret.success) =>
       LET r == SmartTranslate(input.texts[1], output.ret.sourceLanguage,
                               input.targetLanguage, input.detection,
                               translatorAvailable, input.engine[1])
       IN /\ ~output.ret.streaming <=> (~r.threw /\ r.translateCalls = 0)
          /\ ~output.ret.streaming =>
               /\ output.ret.result = input.texts[1]
               /\ output.ret.translateCalls = 0

C36_Witness ==
  /\ output.op = "TRANSLATE_STREAMING"
  /\ output.ret.success /\ ~output.ret.streaming
  /\ input.sourceLanguage = <<"z", "h", "_", "C", "N">>
  /\ input.targetLanguage = <<"z", "h", "-", "C", "N">>
  /\ output.ret.result = input.texts[1]

\* C37: at most one selection popup element exists in the document at any
\* time
C37_AtMostOnePopup == Len(popups) <= 1

\* C38: the response to a selection translate request that was followed,
\* while it was pending, by a click elsewhere, a new selection or another
\* icon click adds no popup to the document
C38_SupersededResponseAddsNoPopup ==
  [][(requests' < requests /\ superseded' < superseded) =>
       Len(popups') <= Len(popups)]_vars

\* C39: whenever isPageTranslated is false and no sweep is in flight, no
\* scroll-translation listener is attached to the window
C39_NoListenerWhenUntranslated ==
  (~isPageTranslated /\ ~SweepInFlight) => ~scrollTranslationHandler

\* the label that corresponds to the active tab: 'cancel page translation'
\* if its content session reports translated, 'translate page' if it
\* reports untranslated or cannot be reached
ActiveTabLabel ==
  IF tabs[activeTab].session = "translated" THEN "cancel" ELSE "translate"

\* C40: when the last pending tab-activation or load-complete update has
\* been processed, the context-menu label is the one that corresponds to
\* the active tab
C40_LabelFollowsActiveTab ==
  [][(updates # <<>> /\ updates' = <<>>) => menuTitle' = ActiveTabLabel']_vars

====
